---- MODULE Spec2Model ----
(***************************************************************************)
(* A model of the synja synthesiser core: the ADSR envelope state machine  *)
(* (src/src/envelope.rs), the voice (src/src/voice.rs) and the voice pool  *)
(* with its allocation / stealing policy (src/src/lib.rs, and the legacy   *)
(* variant in src/src/synth/mod.rs).                                       *)
(*                                                                         *)
(* f32 levels, coefficients and sustain values are fixed-point integers    *)
(* with unit SCALE (1.0 == SCALE); products are rounded to nearest as the  *)
(* floating-point unit does.  The oscillator, LFO and filter signal paths  *)
(* carry no state any property below reads and are not modelled.           *)
(***************************************************************************)
EXTENDS Integers, Naturals, Sequences, FiniteSets, TLC

VARIABLES
    env,        \* SpecEnv: one AdsrEnvelope under test
    eop,        \* SpecEnv: the last call made on it
    egates,     \* SpecEnv: gate_on calls made so far
    legacy,     \* Spec: TRUE for the legacy variant (synth/mod.rs), FALSE for lib.rs
    voices,     \* Spec: Synth::voices, the voice pool
    time,       \* Spec: Synth::time
    params,     \* Spec: SynthParams, the parameters the model reads
    env_chg,    \* Spec: Synth::env_chg, the set of voice ids whose bit is set
    last,       \* Spec: the last operation, its arguments and, for a note event,
                \* what the pool was like before it
    call,       \* SpecProc: the locals of one Plugin::process call, the event
                \* queue of its context and its output buffer
    hist,       \* SpecProc: what the call has done so far
    pvals,      \* SpecMask: the envelope parameter values the render thread can see
    ctl,        \* SpecMask: the control path, which writes parameters
    rt,         \* SpecMask: the render thread inside Voice::generate
    midi,       \* SpecMidi: the pitch handed to midi_pitch_to_freq
    filt,       \* SpecFilt: one HuovilainenMoog filter and its last call
    osc,        \* SpecOsc: one Oscillator and its last call
    glide,      \* SpecPitch: the pitch state of one Voice and the last sample rendered
    smooth      \* SpecSmooth: one smoothed parameter and what the voices read of it

envVars == <<env, eop, egates>>
synthVars == <<legacy, voices, time, params, env_chg, last>>
procVars == <<call, hist>>
maskVars == <<pvals, ctl, rt>>
vars == <<env, eop, egates, legacy, voices, time, params, env_chg, last, call, hist,
          pvals, ctl, rt, midi, filt, osc, glide, smooth>>

----------------------------------------------------------------------------
(* Bounds of the model *)

\* largest envelope rate parameter, in seconds
MaxRate == 2
\* gate_on calls made on the envelope under test
MaxGateOns == 2
\* voices in the pool (NUM_VOICES is 16, POLYPHONY is 8)
NumVoices == 2
\* largest value of the clock
MaxTime == 1
\* longest sub-block rendered in one step (MAX_BLOCK_SIZE is 64)
MaxBlockLen == 2
\* largest number of samples in the buffer of one process call
MaxSamples == 3
\* largest number of events delivered to one process call
MaxEvents == 2
\* writes the control path makes to envelope parameters
MaxWrites == 2

----------------------------------------------------------------------------
(* Fixed-point arithmetic standing in for f32 *)

\* 1.0
SCALE == 10000

\* a / b rounded to the nearest integer, halves away from zero (b > 0)
RoundDiv(a, b) ==
    IF a >= 0 THEN (2 * a + b) \div (2 * b)
              ELSE -((2 * (-a) + b) \div (2 * b))

\* x * y of two fixed-point numbers
Mul(x, y) == RoundDiv(x * y, SCALE)

Rates == 0..MaxRate
\* sample rates, in samples per second
SampleRates == {1}
\* sustain levels 0, 0.5 and 1.0
SustainLevels == {0, SCALE \div 2, SCALE}

----------------------------------------------------------------------------
(* envelope.rs *)

\* AdsrEnvelope::new: target_ratio_a = 0.1, target_ratio_dr = 0.001
TARGET_RATIO_A == SCALE \div 10
TARGET_RATIO_DR == SCALE \div 1000

\* exp(-ln((1 + r) / r) / rate) = ((1 + r) / r)^(-1/rate) for r = 0.1, that is
\* 11^(-1/rate), in units of 1/SCALE, for rate = 1, 2, ...
EXP_TABLE_A == <<909, 3015, 4496, 5491, 6190, 6706, 7100, 7410, 7661, 7868, 8041, 8189>>
\* the same for r = 0.001: 1001^(-1/rate)
EXP_TABLE_DR == <<10, 316, 1000, 1778, 2511, 3162, 3727, 4216, 4641, 5011, 5336, 5623>>

\* calc_coeff that returns 1.0 for a non-positive rate: the level never moves
calc_coeff_one(rate, target_ratio) ==
    IF rate <= 0 THEN SCALE
    ELSE IF target_ratio = TARGET_RATIO_A THEN EXP_TABLE_A[rate]
    ELSE EXP_TABLE_DR[rate]

\* fn calc_coeff(rate, target_ratio)
calc_coeff(rate, target_ratio) ==
    IF rate <= 0 THEN 0
    ELSE IF target_ratio = TARGET_RATIO_A THEN EXP_TABLE_A[rate]
    ELSE EXP_TABLE_DR[rate]

States == {"Idle", "Attacking", "Decaying", "Sustaining", "Releasing"}

\* AdsrEnvelope::new (start_time: TRUE stands for Some(instant), FALSE for None)
AdsrEnvelope_new ==
    [ state |-> "Idle",
      start_time |-> FALSE,
      level |-> 0,
      params |-> [attack_rate |-> 0, decay_rate |-> 0, sustain_level |-> 0, release_rate |-> 0],
      attack_coeff |-> 0, decay_coeff |-> 0, release_coeff |-> 0,
      attack_base |-> 0, decay_base |-> 0, release_base |-> 0 ]

\* AdsrEnvelope::set_envelope_parameters
set_envelope_parameters(e, sample_rate, attack_rate_seconds, decay_rate_seconds, sustain_level, release_rate_seconds) ==
    LET ac == calc_coeff(attack_rate_seconds * sample_rate, TARGET_RATIO_A)
        dc == calc_coeff(decay_rate_seconds * sample_rate, TARGET_RATIO_DR)
        rc == calc_coeff(release_rate_seconds * sample_rate, TARGET_RATIO_DR)
    IN [ e EXCEPT
           !.params = [attack_rate |-> attack_rate_seconds,
                       decay_rate |-> decay_rate_seconds,
                       sustain_level |-> sustain_level,
                       release_rate |-> release_rate_seconds],
           !.attack_coeff = ac,
           !.attack_base = Mul(SCALE + TARGET_RATIO_A, SCALE - ac),
           !.decay_coeff = dc,
           !.decay_base = Mul(sustain_level - TARGET_RATIO_DR, SCALE - dc),
           !.release_coeff = rc,
           !.release_base = Mul(-TARGET_RATIO_DR, SCALE - rc) ]

\* gate_on that restarts the attack from level 0
gate_on_from_zero(e) == [e EXCEPT !.start_time = TRUE, !.state = "Attacking", !.level = 0]

\* AdsrEnvelope::gate_on
gate_on(e) == [e EXCEPT !.start_time = TRUE, !.state = "Attacking"]

\* gate_off without its match on the state: an Idle envelope starts releasing
gate_off_unguarded(e) == [e EXCEPT !.state = "Releasing"]

\* gate_off that also zeroes the level
gate_off_reset(e) ==
    IF e.state \in {"Attacking", "Sustaining", "Decaying"}
    THEN [e EXCEPT !.state = "Releasing", !.level = 0]
    ELSE e

\* AdsrEnvelope::gate_off
gate_off(e) ==
    IF e.state \in {"Attacking", "Sustaining", "Decaying"}
    THEN [e EXCEPT !.state = "Releasing"]
    ELSE e

\* AdsrEnvelope::is_idle
is_idle(e) == e.state = "Idle"

\* AdsrEnvelope::is_decaying
is_decaying(e) == e.state = "Decaying"

\* the level each arm of AdsrEnvelope::process computes before its comparison
attack_level(e) == e.attack_base + Mul(e.level, e.attack_coeff)
decay_level(e) == e.decay_base + Mul(e.level, e.decay_coeff)
release_level(e) == e.release_base + Mul(e.level, e.release_coeff)

\* process whose Attacking arm compares with > instead of >=
process_attack_gt(e) ==
    CASE e.state = "Attacking" ->
            IF attack_level(e) > SCALE
            THEN [e EXCEPT !.level = SCALE, !.state = "Decaying"]
            ELSE [e EXCEPT !.level = attack_level(e)]
      [] e.state = "Decaying" ->
            IF decay_level(e) <= e.params.sustain_level
            THEN [e EXCEPT !.level = e.params.sustain_level, !.state = "Sustaining"]
            ELSE [e EXCEPT !.level = decay_level(e)]
      [] e.state = "Releasing" ->
            IF release_level(e) <= 0
            THEN [e EXCEPT !.level = 0, !.state = "Idle", !.start_time = FALSE]
            ELSE [e EXCEPT !.level = release_level(e)]
      [] OTHER -> e

\* process whose Decaying arm does not snap the level to the sustain level
process_decay_nosnap(e) ==
    CASE e.state = "Attacking" ->
            IF attack_level(e) >= SCALE
            THEN [e EXCEPT !.level = SCALE, !.state = "Decaying"]
            ELSE [e EXCEPT !.level = attack_level(e)]
      [] e.state = "Decaying" ->
            IF decay_level(e) <= e.params.sustain_level
            THEN [e EXCEPT !.level = decay_level(e), !.state = "Sustaining"]
            ELSE [e EXCEPT !.level = decay_level(e)]
      [] e.state = "Releasing" ->
            IF release_level(e) <= 0
            THEN [e EXCEPT !.level = 0, !.state = "Idle", !.start_time = FALSE]
            ELSE [e EXCEPT !.level = release_level(e)]
      [] OTHER -> e

\* process whose Releasing arm forgets to clear the gate-on timestamp
process_release_keeps_time(e) ==
    CASE e.state = "Attacking" ->
            IF attack_level(e) >= SCALE
            THEN [e EXCEPT !.level = SCALE, !.state = "Decaying"]
            ELSE [e EXCEPT !.level = attack_level(e)]
      [] e.state = "Decaying" ->
            IF decay_level(e) <= e.params.sustain_level
            THEN [e EXCEPT !.level = e.params.sustain_level, !.state = "Sustaining"]
            ELSE [e EXCEPT !.level = decay_level(e)]
      [] e.state = "Releasing" ->
            IF release_level(e) <= 0
            THEN [e EXCEPT !.level = 0, !.state = "Idle"]
            ELSE [e EXCEPT !.level = release_level(e)]
      [] OTHER -> e

\* AdsrEnvelope::process
process(e) ==
    CASE e.state = "Attacking" ->
            IF attack_level(e) >= SCALE
            THEN [e EXCEPT !.level = SCALE, !.state = "Decaying"]
            ELSE [e EXCEPT !.level = attack_level(e)]
      [] e.state = "Decaying" ->
            IF decay_level(e) <= e.params.sustain_level
            THEN [e EXCEPT !.level = e.params.sustain_level, !.state = "Sustaining"]
            ELSE [e EXCEPT !.level = decay_level(e)]
      [] e.state = "Releasing" ->
            IF release_level(e) <= 0
            THEN [e EXCEPT !.level = 0, !.state = "Idle", !.start_time = FALSE]
            ELSE [e EXCEPT !.level = release_level(e)]
      [] OTHER -> e

----------------------------------------------------------------------------
(* voice.rs, synth/voice.rs *)

VoiceIds == 0..(NumVoices - 1)
\* the notes of the events delivered, and the velocity each is played with
Notes == {60, 64}
VelocityOf(n) == IF n = 60 THEN 127 ELSE 100
\* Voice::new (voice.rs); the legacy Voice::new (synth/voice.rs) takes no sample
\* rate and starts with empty oscillator banks
Voice_new(id, sample_rate, leg) ==
    [ sample_rate |-> sample_rate,
      id |-> id,
      target_note |-> 0,
      velocity |-> 0,
      start_time |-> 0,
      unison |-> IF leg THEN 0 ELSE 1,
      amp_envelope |-> AdsrEnvelope_new,
      filter_envelope |-> AdsrEnvelope_new ]

\* Voice::note_on that leaves the start time of the voice as it was
voice_note_on_keeps_time(v, note, velocity, t, unison) ==
    [ v EXCEPT !.target_note = note,
               !.unison = unison,
               !.velocity = velocity,
               !.amp_envelope = gate_on(@),
               !.filter_envelope = gate_on(@) ]

\* Voice::note_on
voice_note_on(v, note, velocity, t, unison) ==
    [ v EXCEPT !.target_note = note,
               !.unison = unison,
               !.velocity = velocity,
               !.start_time = t,
               !.amp_envelope = gate_on(@),
               !.filter_envelope = gate_on(@) ]

\* Voice::note_off that gates off the amplitude envelope only
voice_note_off_amp_only(v) == [ v EXCEPT !.amp_envelope = gate_off(@) ]

\* Voice::note_off
voice_note_off(v) ==
    [ v EXCEPT !.amp_envelope = gate_off(@),
               !.filter_envelope = gate_off(@) ]

\* Voice::is_playing
is_playing(v) == ~is_idle(v.amp_envelope)

\* n calls of AdsrEnvelope::next, whose level the sample loop consumes
RECURSIVE ProcessN(_, _)
ProcessN(e, n) == IF n = 0 THEN e ELSE ProcessN(process(e), n - 1)

\* Voice::generate that takes its unison count from the parameter on every call
voice_generate_unison_param(v, p, recompute, block_len) ==
    LET amp == IF recompute
               THEN set_envelope_parameters(v.amp_envelope, v.sample_rate, p.amp.attack_rate,
                        p.amp.decay_rate, p.amp.sustain_level, p.amp.release_rate)
               ELSE v.amp_envelope
        flt == IF recompute
               THEN set_envelope_parameters(v.filter_envelope, v.sample_rate, p.filter.attack_rate,
                        p.filter.decay_rate, p.filter.sustain_level, p.filter.release_rate)
               ELSE v.filter_envelope
    IN [ v EXCEPT !.unison = p.unison_voices,
                  !.amp_envelope = ProcessN(amp, block_len),
                  !.filter_envelope = ProcessN(flt, block_len) ]

\* the envelope part of Voice::generate over a sub-block of block_len samples:
\* the coefficients are recomputed when `recompute` holds (voice.rs: the bit of
\* the voice was set in env_change; synth/voice.rs: always), then both
\* envelopes step once per sample
voice_generate(v, p, recompute, block_len) ==
    LET amp == IF recompute
               THEN set_envelope_parameters(v.amp_envelope, v.sample_rate, p.amp.attack_rate,
                        p.amp.decay_rate, p.amp.sustain_level, p.amp.release_rate)
               ELSE v.amp_envelope
        flt == IF recompute
               THEN set_envelope_parameters(v.filter_envelope, v.sample_rate, p.filter.attack_rate,
                        p.filter.decay_rate, p.filter.sustain_level, p.filter.release_rate)
               ELSE v.filter_envelope
    IN [ v EXCEPT !.amp_envelope = ProcessN(amp, block_len),
                  !.filter_envelope = ProcessN(flt, block_len) ]

----------------------------------------------------------------------------
(* lib.rs, synth/mod.rs *)

\* f64::MAX, above every value of the clock
F64_MAX == MaxTime + 1

\* `mono` of Synth::note_on: lib.rs sets it to false, synth/mod.rs reads PolyMode
mono(leg, p) == IF leg THEN p.poly_mode = "Mono" ELSE FALSE

\* the loop of Synth::note_on from index i on: `found` is the Idle voice it
\* returns at (-1 when the loop runs to its end), odv/odt the oldest Decaying
\* voice (-1 for None) and its time, opv/opt the oldest playing voice and its time
RECURSIVE ScanVoices(_, _, _)
ScanVoices(vs, i, acc) ==
    IF i = NumVoices THEN acc
    ELSE IF ~is_playing(vs[i]) THEN [acc EXCEPT !.found = i]
    ELSE LET a1 == IF is_decaying(vs[i].amp_envelope) /\ vs[i].start_time < acc.odt
                   THEN [acc EXCEPT !.odv = i, !.odt = vs[i].start_time]
                   ELSE acc
             a2 == IF vs[i].start_time < a1.opt
                   THEN [a1 EXCEPT !.opv = i, !.opt = vs[i].start_time]
                   ELSE a1
         IN ScanVoices(vs, i + 1, a2)

ScanStart == [found |-> -1, odv |-> -1, odt |-> F64_MAX, opv |-> 0, opt |-> F64_MAX]

\* Synth::note_on that never prefers a Decaying voice when it steals
note_on_oldest_only(leg, p, vs, note, velocity, t) ==
    LET on(v) == voice_note_on(v, note, velocity, t, p.unison_voices)
        r == ScanVoices(vs, 0, ScanStart)
    IN IF r.found >= 0 THEN [vs EXCEPT ![r.found] = on(@)]
       ELSE [vs EXCEPT ![r.opv] = on(@)]

\* Synth::note_on that takes the last Idle voice instead of the first
note_on_last_idle(leg, p, vs, note, velocity, t) ==
    LET on(v) == voice_note_on(v, note, velocity, t, p.unison_voices)
        idle == {i \in VoiceIds : ~is_playing(vs[i])}
        r == ScanVoices(vs, 0, ScanStart)
    IN IF idle # {}
       THEN [vs EXCEPT ![CHOOSE i \in idle : \A j \in idle : j <= i] = on(@)]
       ELSE IF r.odv >= 0 THEN [vs EXCEPT ![r.odv] = on(@)]
       ELSE [vs EXCEPT ![r.opv] = on(@)]

\* Synth::note_on that steals the newest voice when none is Decaying
note_on_newest(leg, p, vs, note, velocity, t) ==
    LET on(v) == voice_note_on(v, note, velocity, t, p.unison_voices)
        r == ScanVoices(vs, 0, ScanStart)
        newest == CHOOSE i \in VoiceIds : \A j \in VoiceIds : vs[j].start_time <= vs[i].start_time
    IN IF r.found >= 0 THEN [vs EXCEPT ![r.found] = on(@)]
       ELSE IF r.odv >= 0 THEN [vs EXCEPT ![r.odv] = on(@)]
       ELSE [vs EXCEPT ![newest] = on(@)]

\* Synth::note_on that steals the highest index among the voices that share
\* the smallest start time
note_on_ties_last(leg, p, vs, note, velocity, t) ==
    LET on(v) == voice_note_on(v, note, velocity, t, p.unison_voices)
        r == ScanVoices(vs, 0, ScanStart)
        dec == {i \in VoiceIds : is_decaying(vs[i].amp_envelope)}
        last_of(c) == CHOOSE i \in c : \A j \in c :
                         \/ vs[i].start_time < vs[j].start_time
                         \/ vs[i].start_time = vs[j].start_time /\ j <= i
    IN IF mono(leg, p)
       THEN LET vs1 == [vs EXCEPT ![0] = on(@)]
            IN [vs1 EXCEPT ![ScanStart.opv] = on(@)]
       ELSE IF r.found >= 0 THEN [vs EXCEPT ![r.found] = on(@)]
       ELSE IF dec # {} THEN [vs EXCEPT ![last_of(dec)] = on(@)]
       ELSE [vs EXCEPT ![last_of(VoiceIds)] = on(@)]

\* Synth::note_on: the mono branch triggers voice 0 and falls through to the
\* match below it, which triggers voices[oldest_playing_voice], voice 0, again
note_on(leg, p, vs, note, velocity, t) ==
    LET on(v) == voice_note_on(v, note, velocity, t, p.unison_voices)
    IN IF mono(leg, p)
       THEN LET vs1 == [vs EXCEPT ![0] = on(@)]
            IN [vs1 EXCEPT ![ScanStart.opv] = on(@)]
       ELSE LET r == ScanVoices(vs, 0, ScanStart)
            IN IF r.found >= 0 THEN [vs EXCEPT ![r.found] = on(@)]
               ELSE IF r.odv >= 0 THEN [vs EXCEPT ![r.odv] = on(@)]
               ELSE [vs EXCEPT ![r.opv] = on(@)]

\* Synth::note_off that releases the first matching voice only
note_off_first_only(vs, note) ==
    LET match == {i \in VoiceIds : vs[i].target_note = note}
    IN IF match = {} THEN vs
       ELSE [vs EXCEPT ![CHOOSE i \in match : \A j \in match : i <= j] = voice_note_off(@)]

\* Synth::note_off
note_off(vs, note) ==
    [i \in VoiceIds |-> IF vs[i].target_note = note THEN voice_note_off(vs[i]) ELSE vs[i]]

\* the parameter values after construction: SynthParams::new for lib.rs (rates
\* 0.2 s, here one time unit; sustain 0 dB; Poly; one unison voice), and
\* Smoothed::default, all zero, for synth/mod.rs
DefaultAdsr == [attack_rate |-> 1, decay_rate |-> 1, sustain_level |-> SCALE, release_rate |-> 1]
ZeroAdsr == [attack_rate |-> 0, decay_rate |-> 0, sustain_level |-> 0, release_rate |-> 0]
DefaultParams(leg) ==
    IF leg
    THEN [amp |-> ZeroAdsr, filter |-> ZeroAdsr, unison_voices |-> 0, poly_mode |-> "Unset"]
    ELSE [amp |-> DefaultAdsr, filter |-> DefaultAdsr, unison_voices |-> 1, poly_mode |-> "Poly"]

\* what a note event finds: is some voice Idle, is some voice Decaying, is
\* some voice that is not Decaying older than every Decaying one, and which
\* voices have the smallest start time of all
PoolBefore(vs) ==
    [ idle |-> \E i \in VoiceIds : ~is_playing(vs[i]),
      decaying |-> \E i \in VoiceIds : is_decaying(vs[i].amp_envelope),
      older |-> \E i \in VoiceIds :
                   /\ ~is_decaying(vs[i].amp_envelope)
                   /\ \A j \in VoiceIds : is_decaying(vs[j].amp_envelope)
                                              => vs[i].start_time < vs[j].start_time,
      oldest |-> {i \in VoiceIds : \A j \in VoiceIds : vs[i].start_time <= vs[j].start_time} ]

NoOp(name) ==
    [op |-> name, note |-> 0, velocity |-> 0,
     before |-> [idle |-> FALSE, decaying |-> FALSE, older |-> FALSE, oldest |-> {}]]

\* Synth::default of either variant
SynthInit ==
    /\ legacy \in BOOLEAN
    /\ voices = [i \in VoiceIds |-> Voice_new(i, 1, legacy)]
    /\ time = 0
    /\ params = DefaultParams(legacy)
    /\ env_chg = IF legacy THEN {} ELSE VoiceIds
    /\ last = NoOp("new")

\* Plugin::initialize (lib.rs): the pool is rebuilt for the host's sample rate
Initialize ==
    /\ ~legacy
    /\ \E sr \in SampleRates : voices' = [i \in VoiceIds |-> Voice_new(i, sr, FALSE)]
    /\ last' = NoOp("other")
    /\ UNCHANGED <<legacy, time, params, env_chg>>

\* the head of Plugin::process: self.time = SystemTime::now(), a clock that
\* does not step back while the plugin runs
ProcessBegin ==
    /\ \E t \in time..MaxTime : time' = t
    /\ last' = NoOp("other")
    /\ UNCHANGED <<legacy, voices, params, env_chg>>

\* a NoteOn event handled by Synth::note_on with the time of this process call
NoteOn ==
    /\ \E n \in Notes :
          /\ voices' = note_on(legacy, params, voices, n, VelocityOf(n), time)
          /\ last' = [op |-> "note_on", note |-> n, velocity |-> VelocityOf(n),
                        before |-> PoolBefore(voices)]
    /\ UNCHANGED <<legacy, time, params, env_chg>>

\* a NoteOff event handled by Synth::note_off
NoteOff ==
    /\ \E n \in Notes :
          /\ voices' = note_off(voices, n)
          /\ last' = [op |-> "note_off", note |-> n, velocity |-> 0,
                        before |-> PoolBefore(voices)]
    /\ UNCHANGED <<legacy, time, params, env_chg>>

\* one sub-block of Plugin::process (generate_audio in synth/mod.rs): every
\* playing voice generates block_len samples; in lib.rs each of them
\* test-and-clears its bit of env_chg
Generate ==
    /\ \E block_len \in 1..MaxBlockLen :
          voices' = [i \in VoiceIds |->
                        IF is_playing(voices[i])
                        THEN voice_generate(voices[i], params, legacy \/ i \in env_chg, block_len)
                        ELSE voices[i]]
    /\ env_chg' = IF legacy THEN env_chg
                  ELSE env_chg \ {i \in VoiceIds : is_playing(voices[i])}
    /\ last' = NoOp("other")
    /\ UNCHANGED <<legacy, time, params>>

\* the control path writes the Poly / Mono switch
WriteMode ==
    /\ \E m \in {"Mono", "Poly"} : params' = [params EXCEPT !.poly_mode = m]
    /\ last' = NoOp("other")
    /\ UNCHANGED <<legacy, voices, time, env_chg>>

\* the parts of the model a specification leaves out stay as they are here
NoCall == [pc |-> "off"]
NoHist == [blocks |-> <<>>]
Off == [pc |-> "off"]
EnvOff == env = AdsrEnvelope_new /\ eop = "new" /\ egates = 0
ProcOff == call = NoCall /\ hist = NoHist
MaskOff == pvals = <<>> /\ ctl = Off /\ rt = Off
MidiOff == midi = Off
FiltOff == filt = Off
OscOff == osc = Off
GlideOff == glide = Off
SmoothOff == smooth = Off

Init ==
    /\ SynthInit
    /\ ~legacy
    /\ env = AdsrEnvelope_new
    /\ eop = "new"
    /\ egates = 0
    /\ ProcOff /\ MaskOff /\ MidiOff /\ FiltOff /\ OscOff /\ GlideOff /\ SmoothOff

Next ==
    \/ /\ \/ Initialize
          \/ ProcessBegin
          \/ NoteOn
          \/ NoteOff
          \/ Generate
          \/ WriteMode
       /\ UNCHANGED <<envVars, procVars, maskVars, midi, filt, osc, glide, smooth>>

\* the plugin of lib.rs
Spec == Init /\ [][Next]_vars

\* the legacy plugin of synth/mod.rs
InitLegacy ==
    /\ SynthInit
    /\ legacy
    /\ env = AdsrEnvelope_new
    /\ eop = "new"
    /\ egates = 0
    /\ ProcOff /\ MaskOff /\ MidiOff /\ FiltOff /\ OscOff /\ GlideOff /\ SmoothOff

SpecLegacy == InitLegacy /\ [][Next]_vars

----------------------------------------------------------------------------
(* SpecProc: one Plugin::process call (lib.rs), statement by statement *)

\* lib.rs: MAX_BLOCK_SIZE
MAX_BLOCK_SIZE == MaxBlockLen

\* usize::max in the place of usize::min
Min_max(a, b) == IF a < b THEN b ELSE a

Min(a, b) == IF a < b THEN a ELSE b

\* the note events a host delivers: NoteOn and NoteOff of one key, and any
\* other event, each with its timing; None is NoEvent
EventKinds == {"note_on", "note_off", "other"}
Events == [timing : 0..MaxSamples, kind : EventKinds]
NoEvent == [timing |-> -1, kind |-> "none"]
EventSeqs == UNION {[1..k -> Events] : k \in 0..MaxEvents}
EventNote == 60

\* what the caller left in the buffer
Garbage == {0, 9}

\* the amplitude envelope levels Voice::generate reads, one amp_envelope.next()
\* per sample of the sub-block
amp_env(v, p, recompute, block_len) ==
    LET amp == IF recompute
               THEN set_envelope_parameters(v.amp_envelope, v.sample_rate, p.amp.attack_rate,
                        p.amp.decay_rate, p.amp.sustain_level, p.amp.release_rate)
               ELSE v.amp_envelope
    IN [k \in 1..block_len |-> ProcessN(amp, k).level]

\* the stereo sample of a voice before the amplitude envelope: the oscillators
\* and the filter are not modelled, the two channels carry different signals
FilteredL == 1
FilteredR == 2

\* the last two statements of the sample loop of Voice::generate, with `=` for `+=`
voice_output_overwrite(out, levels, block_start) ==
    [ch \in {0, 1} |->
        [idx \in DOMAIN out[ch] |->
            IF idx - block_start + 1 \in DOMAIN levels
            THEN (IF ch = 0 THEN FilteredL ELSE FilteredR) * levels[idx - block_start + 1]
            ELSE out[ch][idx]]]

\* the last two statements of the sample loop of Voice::generate:
\* output[ch][block_start + i] += amp_sample.ch
voice_output(out, levels, block_start) ==
    [ch \in {0, 1} |->
        [idx \in DOMAIN out[ch] |->
            IF idx - block_start + 1 \in DOMAIN levels
            THEN out[ch][idx]
                    + (IF ch = 0 THEN FilteredL ELSE FilteredR) * levels[idx - block_start + 1]
            ELSE out[ch][idx]]]

\* output[ch][block_start..block_end].fill(0.0) that does nothing
fill_zero_skipped(out, block_start, block_end) == out

\* output[ch][block_start..block_end].fill(0.0), both channels
fill_zero(out, block_start, block_end) ==
    [ch \in {0, 1} |->
        [idx \in DOMAIN out[ch] |->
            IF block_start <= idx /\ idx < block_end THEN 0 ELSE out[ch][idx]]]

\* the loop over the playing voices from voice i on: each adds its sub-block
RECURSIVE RenderVoices(_, _, _, _, _, _, _)
RenderVoices(i, out, vs, p, chg, block_start, block_end) ==
    IF i = NumVoices THEN out
    ELSE IF is_playing(vs[i])
         THEN RenderVoices(i + 1,
                  voice_output(out, amp_env(vs[i], p, i \in chg, block_end - block_start),
                               block_start),
                  vs, p, chg, block_start, block_end)
         ELSE RenderVoices(i + 1, out, vs, p, chg, block_start, block_end)

\* the contributions the playing voices compute for the sub-block
Contributions(vs, p, chg, block_start, block_end) ==
    {[voice |-> i, idx |-> block_start + k - 1,
      level |-> amp_env(vs[i], p, i \in chg, block_end - block_start)[k]] :
        i \in {j \in VoiceIds : is_playing(vs[j])}, k \in 1..(block_end - block_start)}

\* context.next_event() on the queue q
next_event(q) == IF q = <<>> THEN NoEvent ELSE Head(q)
rest(q) == IF q = <<>> THEN q ELSE Tail(q)

ProcInit ==
    /\ SynthInit
    /\ ~legacy
    /\ EnvOff /\ MaskOff /\ MidiOff /\ FiltOff /\ OscOff /\ GlideOff /\ SmoothOff
    /\ \E n \in 0..MaxSamples, evs \in EventSeqs, g \in Garbage :
          /\ call = [pc |-> "start", num_samples |-> n, queue |-> evs,
                     next_event |-> NoEvent, block_start |-> 0, block_end |-> 0,
                     output |-> [ch \in {0, 1} |-> [idx \in 0..(n - 1) |-> g]]]
          /\ hist = [delivered |-> evs, applied |-> <<>>, blocks |-> <<>>,
                     done |-> {}, contrib |-> {}, garbage |-> g]

\* the head of Plugin::process, down to the while loop
ProcStart ==
    /\ call.pc = "start"
    /\ \E t \in time..MaxTime : time' = t
    /\ call' = [call EXCEPT !.pc = "while",
                            !.next_event = next_event(call.queue),
                            !.queue = rest(call.queue),
                            !.block_start = 0,
                            !.block_end = Min(MAX_BLOCK_SIZE, call.num_samples)]
    /\ last' = NoOp("other")
    /\ UNCHANGED <<legacy, voices, params, env_chg, hist>>

\* while block_start < num_samples
ProcWhile ==
    /\ call.pc = "while"
    /\ call' = [call EXCEPT !.pc = IF call.block_start < call.num_samples
                                   THEN "events" ELSE "done"]
    /\ UNCHANGED <<legacy, voices, time, params, env_chg, last, hist>>

\* first arm of the 'events loop: the event happens now; it is handled and the
\* next one is fetched
ProcEventNow ==
    /\ call.pc = "events"
    /\ call.next_event # NoEvent
    /\ call.next_event.timing <= call.block_start
    /\ voices' = CASE call.next_event.kind = "note_on" ->
                        note_on(legacy, params, voices, EventNote, VelocityOf(EventNote), time)
                   [] call.next_event.kind = "note_off" -> note_off(voices, EventNote)
                   [] OTHER -> voices
    /\ last' = [op |-> call.next_event.kind, note |-> EventNote,
                velocity |-> IF call.next_event.kind = "note_on"
                             THEN VelocityOf(EventNote) ELSE 0,
                before |-> PoolBefore(voices)]
    /\ call' = [call EXCEPT !.next_event = next_event(call.queue),
                            !.queue = rest(call.queue)]
    /\ hist' = [hist EXCEPT !.applied = Append(@, [timing |-> call.next_event.timing,
                                                   kind |-> call.next_event.kind,
                                                   done |-> hist.done])]
    /\ UNCHANGED <<legacy, time, params, env_chg>>

\* second arm that leaves the 'events loop without cutting the block
ProcEventCut_uncut ==
    /\ call.pc = "events"
    /\ call.next_event # NoEvent
    /\ call.next_event.timing > call.block_start
    /\ call.next_event.timing < call.block_end
    /\ call' = [call EXCEPT !.pc = "render"]
    /\ UNCHANGED <<legacy, voices, time, params, env_chg, last, hist>>

\* second arm: the event happens before the end of the block, which is cut short
ProcEventCut ==
    /\ call.pc = "events"
    /\ call.next_event # NoEvent
    /\ call.next_event.timing > call.block_start
    /\ call.next_event.timing < call.block_end
    /\ call' = [call EXCEPT !.block_end = call.next_event.timing, !.pc = "render"]
    /\ UNCHANGED <<legacy, voices, time, params, env_chg, last, hist>>

\* third arm: no event, or none before the end of the block
ProcEventNone ==
    /\ call.pc = "events"
    /\ \/ call.next_event = NoEvent
       \/ /\ call.next_event.timing > call.block_start
          /\ call.next_event.timing >= call.block_end
    /\ call' = [call EXCEPT !.pc = "render"]
    /\ UNCHANGED <<legacy, voices, time, params, env_chg, last, hist>>

\* the rest of the loop body: the sub-block is silenced, every playing voice
\* generates into it, and the next block is set up
ProcRender ==
    /\ call.pc = "render"
    /\ LET bs == call.block_start
           be == call.block_end
       IN /\ call' = [call EXCEPT
                         !.output = RenderVoices(0, fill_zero(call.output, bs, be),
                                                 voices, params, env_chg, bs, be),
                         !.block_start = be,
                         !.block_end = Min(be + MAX_BLOCK_SIZE, call.num_samples),
                         !.pc = "while"]
          /\ voices' = [i \in VoiceIds |->
                           IF is_playing(voices[i])
                           THEN voice_generate(voices[i], params, i \in env_chg, be - bs)
                           ELSE voices[i]]
          /\ env_chg' = env_chg \ {i \in VoiceIds : is_playing(voices[i])}
          /\ hist' = [hist EXCEPT
                         !.blocks = Append(@, <<bs, be>>),
                         !.done = @ \cup {idx \in DOMAIN call.output[0] : bs <= idx /\ idx < be},
                         !.contrib = @ \cup Contributions(voices, params, env_chg, bs, be)]
    /\ last' = NoOp("other")
    /\ UNCHANGED <<legacy, time, params>>

ProcNext ==
    \/ /\ \/ ProcStart
          \/ ProcWhile
          \/ ProcEventNow
          \/ ProcEventCut
          \/ ProcEventNone
          \/ ProcRender
       /\ UNCHANGED <<envVars, maskVars, midi, filt, osc, glide, smooth>>

SpecProc == ProcInit /\ [][ProcNext]_vars

----------------------------------------------------------------------------
(* SpecMask: the control path writes envelope parameters (lib.rs) while the *)
(* render thread runs Voice::generate (voice.rs)                            *)

\* an envelope time parameter (env_time_param) and the sustain gain
\* (env_gain_param); a value is the number of the write that stored it, 0 for
\* the default
ParamNames == {"attack", "sustain"}
\* the order in which Voice::generate reads them
ParamOrder == <<"attack", "sustain">>

\* env_change.fetch_and(...) that clears every bit
fetch_and_all(mask, i) == [old |-> i \in mask, new |-> {}]

\* env_change.fetch_and(bit.not(), Ordering::Relaxed) & bit == bit for the bit
\* of voice i: one atomic read-modify-write
fetch_and(mask, i) == [old |-> i \in mask, new |-> mask \ {i}]

MaskInit ==
    /\ EnvOff /\ ProcOff /\ MidiOff /\ FiltOff /\ OscOff /\ GlideOff /\ SmoothOff
    /\ legacy = FALSE
    /\ voices = <<>>
    /\ time = 0
    /\ params = DefaultParams(FALSE)
    /\ last = NoOp("new")
    /\ env_chg = VoiceIds
    /\ pvals = [p \in ParamNames |-> 0]
    /\ ctl = [pc |-> "idle", param |-> "attack", version |-> 0, pending |-> {},
              writes |-> 0, completed |-> [p \in ParamNames |-> 0]]
    /\ rt = [pc |-> "idle", voice |-> 0, bit |-> FALSE, next |-> 1,
             got |-> [p \in ParamNames |-> 0],
             coef |-> [i \in VoiceIds |-> [p \in ParamNames |-> 0]],
             need |-> [p \in ParamNames |-> 0],
             recomputes |-> [i \in VoiceIds |-> 0]]

\* the control path sets a parameter: the value is stored and then the
\* callback stores 0xFFFF into the mask with Ordering::Relaxed, so that the
\* two stores are issued in this order and reach the render thread in any order
CtlWrite ==
    /\ ctl.pc = "idle"
    /\ ctl.writes < MaxWrites
    /\ \E p \in ParamNames :
          ctl' = [ctl EXCEPT !.pc = "issued", !.param = p, !.version = ctl.writes + 1,
                             !.pending = {"value", "mask"}, !.writes = @ + 1]
    /\ UNCHANGED <<pvals, rt, env_chg>>

\* the write has completed when both its stores have taken effect
StoreDone(c) ==
    IF c.pending = {} THEN [c EXCEPT !.pc = "idle", !.completed[c.param] = c.version]
    ELSE c

\* the new value becomes visible to the render thread
CtlValueVisible ==
    /\ "value" \in ctl.pending
    /\ pvals' = [pvals EXCEPT ![ctl.param] = ctl.version]
    /\ ctl' = StoreDone([ctl EXCEPT !.pending = @ \ {"value"}])
    /\ UNCHANGED <<rt, env_chg>>

\* env_chg.store(0xFFFF, Ordering::Relaxed) becomes visible to the render thread
CtlMaskVisible ==
    /\ "mask" \in ctl.pending
    /\ env_chg' = VoiceIds
    /\ ctl' = StoreDone([ctl EXCEPT !.pending = @ \ {"mask"}])
    /\ rt' = [rt EXCEPT !.recomputes = [i \in VoiceIds |-> 0]]
    /\ UNCHANGED pvals

\* Voice::generate of a playing voice i reaches its test-and-clear
RtFetch ==
    /\ rt.pc = "idle"
    /\ \E i \in VoiceIds :
          LET f == fetch_and(env_chg, i)
          IN /\ env_chg' = f.new
             /\ rt' = [rt EXCEPT !.pc = IF f.old THEN "read" ELSE "end",
                                 !.voice = i, !.bit = f.old, !.next = 1,
                                 !.need = ctl.completed,
                                 !.recomputes[i] = IF f.old THEN @ + 1 ELSE @]
    /\ UNCHANGED <<pvals, ctl>>

\* the arguments of set_envelope_parameters are read one by one, and after the
\* last one the coefficients are computed from them
RtRead ==
    /\ rt.pc = "read"
    /\ LET p == ParamOrder[rt.next]
           got == [rt.got EXCEPT ![p] = pvals[p]]
       IN rt' = IF rt.next = Len(ParamOrder)
                THEN [rt EXCEPT !.got = got, !.coef[rt.voice] = got, !.pc = "end"]
                ELSE [rt EXCEPT !.got = got, !.next = @ + 1]
    /\ UNCHANGED <<pvals, ctl, env_chg>>

\* the rest of Voice::generate
RtEnd ==
    /\ rt.pc = "end"
    /\ rt' = [rt EXCEPT !.pc = "idle"]
    /\ UNCHANGED <<pvals, ctl, env_chg>>

MaskNext ==
    \/ /\ \/ CtlWrite
          \/ CtlValueVisible
          \/ CtlMaskVisible
          \/ RtFetch
          \/ RtRead
          \/ RtEnd
       /\ UNCHANGED <<envVars, procVars, midi, filt, osc, legacy, voices, time, params, last, glide, smooth>>

SpecMask == MaskInit /\ [][MaskNext]_vars

----------------------------------------------------------------------------
(* SpecUnison: the plugin of lib.rs while the host moves the unison-voices *)
(* parameter                                                               *)

\* voice.rs: MAX_UNISON
MAX_UNISON == 7
\* values of the "Unison Voices" parameter, an IntParam of range 1 ..= 7
UnisonValues == {1, 2, MAX_UNISON}

\* the control path writes the unison-voices parameter
WriteUnison ==
    /\ \E u \in UnisonValues \ {params.unison_voices} :
          params' = [params EXCEPT !.unison_voices = u]
    /\ last' = NoOp("other")
    /\ UNCHANGED <<legacy, voices, time, env_chg>>

UnisonNext ==
    \/ /\ \/ NoteOn
          \/ NoteOff
          \/ Generate
          \/ WriteUnison
       /\ UNCHANGED <<envVars, procVars, maskVars, midi, filt, osc, glide, smooth>>

SpecUnison == Init /\ [][UnisonNext]_vars

----------------------------------------------------------------------------
(* SpecMidi: midi_pitch_to_freq (midi.rs) in IEEE single precision: a value *)
(* is a record [m, e] for m * 2^e with 2^23 <= |m| < 2^24, or m = 0         *)

F32(m, e) == [m |-> m, e |-> e]
F32_ZERO == F32(0, 0)
F32_of(pair) == F32(pair[1], pair[2])

AbsInt(x) == IF x < 0 THEN -x ELSE x
SignInt(x) == IF x < 0 THEN -1 ELSE 1

\* the number of binary digits of a natural number
RECURSIVE BitLen(_)
BitLen(a) == IF a = 0 THEN 0 ELSE 1 + BitLen(a \div 2)

\* q + r / (2 * half) rounded to the nearest integer, ties to even
RoundEven(q, r, half) == IF r > half \/ (r = half /\ q % 2 = 1) THEN q + 1 ELSE q

\* the f32 nearest to m * 2^e
f32_round(m, e) ==
    IF m = 0 THEN F32_ZERO
    ELSE LET a == AbsInt(m)
             n == BitLen(a)
         IN IF n <= 24
            THEN F32(SignInt(m) * a * 2^(24 - n), e - (24 - n))
            ELSE LET k == n - 24
                     q == RoundEven(a \div 2^k, a % 2^k, 2^(k - 1))
                 IN IF q = 2^24 THEN F32(SignInt(m) * 2^23, e + k + 1)
                    ELSE F32(SignInt(m) * q, e + k)

\* f32 * f32: the 48-bit product of the mantissas in two halves H and L
f32_mul(x, y) ==
    IF x.m = 0 \/ y.m = 0 THEN F32_ZERO
    ELSE LET a == AbsInt(x.m)
             b == AbsInt(y.m)
             s == SignInt(x.m) * SignInt(y.m)
             a1 == a \div 4096
             a0 == a % 4096
             b1 == b \div 4096
             b0 == b % 4096
             mid == a1 * b0 + a0 * b1
             u == (mid % 4096) * 4096 + a0 * b0
             L == u % 2^24
             H == a1 * b1 + (mid \div 4096) + (u \div 2^24)
             wide == H >= 2^23
             q == IF wide THEN RoundEven(H, L, 2^23)
                  ELSE RoundEven(2 * H + (L \div 2^23), L % 2^23, 2^22)
             ex == x.e + y.e + (IF wide THEN 24 ELSE 23)
         IN IF q = 2^24 THEN F32(s * 2^23, ex + 1) ELSE F32(s * q, ex)

\* f32 + f32, with three guard bits of which the last is sticky
f32_add(x, y) ==
    IF x.m = 0 THEN y
    ELSE IF y.m = 0 THEN x
    ELSE LET hi == IF x.e >= y.e THEN x ELSE y
             lo == IF x.e >= y.e THEN y ELSE x
             d == hi.e - lo.e
         IN IF d > 25 THEN hi
            ELSE LET y8 == AbsInt(lo.m) * 8
                     q == y8 \div 2^d
                     sticky == IF y8 % 2^d # 0 /\ q % 2 = 0 THEN 1 ELSE 0
                 IN f32_round(hi.m * 8 + SignInt(lo.m) * (q + sticky), hi.e - 3)

f32_sub(x, y) == f32_add(x, F32(-y.m, y.e))
f32_abs(x) == F32(AbsInt(x.m), x.e)
f32_lt(x, y) == f32_sub(x, y).m < 0
\* x * 2^k
f32_ldexp(x, k) == IF x.m = 0 THEN x ELSE F32(x.m, x.e + k)
\* i32 as f32
f32_from_int(n) == f32_round(n, 0)
\* f32 as i32: towards zero
f32_to_i32(x) ==
    IF x.e >= 0 THEN x.m * 2^x.e
    ELSE IF -x.e > 30 THEN 0
    ELSE SignInt(x.m) * (AbsInt(x.m) \div 2^(-x.e))
\* f32 as usize: towards zero, a negative value gives 0
f32_to_usize(x) == IF x.m < 0 THEN 0 ELSE f32_to_i32(x)

A4_PITCH == 69
A4_FREQ == F32(14417920, -15)
PITCH_TABLE_SIZE == 512
\* the literals 1.0, 1000.0, 0.01 and 0.001
F32_ONE == F32(8388608, -23)
F32_1000 == F32(16384000, -14)
F32_CENT == F32(10737418, -30)
F32_PER_MILLE == F32(8589935, -33)

\* PITCH[i] = (1.0 / 12.0 * (i - 256) as f32).exp2(), as <<mantissa, exponent>>
PITCH ==
    << <<13316079, -45>>, <<14107901, -45>>, <<14946787, -45>>, <<15835576, -45>>, <<8388608, -44>>, <<8887413, -44>>,
       <<9415890, -44>>, <<9975792, -44>>, <<10568974, -44>>, <<11197443, -44>>, <<11863283, -44>>, <<12568700, -44>>,
       <<13316079, -44>>, <<14107901, -44>>, <<14946787, -44>>, <<15835576, -44>>, <<8388608, -43>>, <<8887413, -43>>,
       <<9415890, -43>>, <<9975792, -43>>, <<10568974, -43>>, <<11197443, -43>>, <<11863283, -43>>, <<12568700, -43>>,
       <<13316079, -43>>, <<14107901, -43>>, <<14946787, -43>>, <<15835576, -43>>, <<8388608, -42>>, <<8887413, -42>>,
       <<9415890, -42>>, <<9975792, -42>>, <<10568974, -42>>, <<11197443, -42>>, <<11863283, -42>>, <<12568700, -42>>,
       <<13316079, -42>>, <<14107901, -42>>, <<14946787, -42>>, <<15835576, -42>>, <<8388608, -41>>, <<8887413, -41>>,
       <<9415890, -41>>, <<9975792, -41>>, <<10568974, -41>>, <<11197443, -41>>, <<11863283, -41>>, <<12568700, -41>>,
       <<13316079, -41>>, <<14107901, -41>>, <<14946787, -41>>, <<15835576, -41>>, <<8388608, -40>>, <<8887413, -40>>,
       <<9415890, -40>>, <<9975792, -40>>, <<10568974, -40>>, <<11197443, -40>>, <<11863283, -40>>, <<12568700, -40>>,
       <<13316079, -40>>, <<14107901, -40>>, <<14946787, -40>>, <<15835576, -40>>, <<8388608, -39>>, <<8887419, -39>>,
       <<9415890, -39>>, <<9975792, -39>>, <<10568981, -39>>, <<11197443, -39>>, <<11863283, -39>>, <<12568708, -39>>,
       <<13316079, -39>>, <<14107901, -39>>, <<14946797, -39>>, <<15835576, -39>>, <<8388608, -38>>, <<8887419, -38>>,
       <<9415890, -38>>, <<9975792, -38>>, <<10568981, -38>>, <<11197443, -38>>, <<11863283, -38>>, <<12568708, -38>>,
       <<13316079, -38>>, <<14107901, -38>>, <<14946797, -38>>, <<15835576, -38>>, <<8388608, -37>>, <<8887419, -37>>,
       <<9415890, -37>>, <<9975792, -37>>, <<10568981, -37>>, <<11197443, -37>>, <<11863283, -37>>, <<12568708, -37>>,
       <<13316079, -37>>, <<14107901, -37>>, <<14946797, -37>>, <<15835576, -37>>, <<8388608, -36>>, <<8887419, -36>>,
       <<9415890, -36>>, <<9975792, -36>>, <<10568981, -36>>, <<11197443, -36>>, <<11863283, -36>>, <<12568708, -36>>,
       <<13316079, -36>>, <<14107901, -36>>, <<14946797, -36>>, <<15835576, -36>>, <<8388608, -35>>, <<8887419, -35>>,
       <<9415890, -35>>, <<9975792, -35>>, <<10568981, -35>>, <<11197443, -35>>, <<11863283, -35>>, <<12568708, -35>>,
       <<13316079, -35>>, <<14107901, -35>>, <<14946797, -35>>, <<15835576, -35>>, <<8388608, -34>>, <<8887419, -34>>,
       <<9415890, -34>>, <<9975792, -34>>, <<10568981, -34>>, <<11197443, -34>>, <<11863283, -34>>, <<12568708, -34>>,
       <<13316079, -34>>, <<14107901, -34>>, <<14946797, -34>>, <<15835576, -34>>, <<8388608, -33>>, <<8887419, -33>>,
       <<9415890, -33>>, <<9975792, -33>>, <<10568981, -33>>, <<11197443, -33>>, <<11863283, -33>>, <<12568708, -33>>,
       <<13316079, -33>>, <<14107901, -33>>, <<14946797, -33>>, <<15835576, -33>>, <<8388608, -32>>, <<8887419, -32>>,
       <<9415890, -32>>, <<9975792, -32>>, <<10568981, -32>>, <<11197443, -32>>, <<11863283, -32>>, <<12568708, -32>>,
       <<13316079, -32>>, <<14107901, -32>>, <<14946797, -32>>, <<15835576, -32>>, <<8388608, -31>>, <<8887419, -31>>,
       <<9415893, -31>>, <<9975792, -31>>, <<10568981, -31>>, <<11197447, -31>>, <<11863283, -31>>, <<12568708, -31>>,
       <<13316084, -31>>, <<14107901, -31>>, <<14946797, -31>>, <<15835581, -31>>, <<8388608, -30>>, <<8887419, -30>>,
       <<9415893, -30>>, <<9975792, -30>>, <<10568981, -30>>, <<11197447, -30>>, <<11863283, -30>>, <<12568708, -30>>,
       <<13316084, -30>>, <<14107901, -30>>, <<14946797, -30>>, <<15835581, -30>>, <<8388608, -29>>, <<8887419, -29>>,
       <<9415893, -29>>, <<9975792, -29>>, <<10568981, -29>>, <<11197447, -29>>, <<11863283, -29>>, <<12568708, -29>>,
       <<13316084, -29>>, <<14107901, -29>>, <<14946797, -29>>, <<15835581, -29>>, <<8388608, -28>>, <<8887419, -28>>,
       <<9415893, -28>>, <<9975792, -28>>, <<10568981, -28>>, <<11197447, -28>>, <<11863283, -28>>, <<12568708, -28>>,
       <<13316084, -28>>, <<14107901, -28>>, <<14946797, -28>>, <<15835581, -28>>, <<8388608, -27>>, <<8887420, -27>>,
       <<9415893, -27>>, <<9975792, -27>>, <<10568983, -27>>, <<11197447, -27>>, <<11863283, -27>>, <<12568710, -27>>,
       <<13316084, -27>>, <<14107901, -27>>, <<14946799, -27>>, <<15835581, -27>>, <<8388608, -26>>, <<8887420, -26>>,
       <<9415893, -26>>, <<9975792, -26>>, <<10568983, -26>>, <<11197447, -26>>, <<11863283, -26>>, <<12568710, -26>>,
       <<13316084, -26>>, <<14107901, -26>>, <<14946799, -26>>, <<15835581, -26>>, <<8388608, -25>>, <<8887420, -25>>,
       <<9415894, -25>>, <<9975792, -25>>, <<10568983, -25>>, <<11197448, -25>>, <<11863283, -25>>, <<12568710, -25>>,
       <<13316085, -25>>, <<14107901, -25>>, <<14946799, -25>>, <<15835583, -25>>, <<8388608, -24>>, <<8887420, -24>>,
       <<9415894, -24>>, <<9975792, -24>>, <<10568984, -24>>, <<11197448, -24>>, <<11863283, -24>>, <<12568711, -24>>,
       <<13316085, -24>>, <<14107901, -24>>, <<14946800, -24>>, <<15835583, -24>>, <<8388608, -23>>, <<8887421, -23>>,
       <<9415894, -23>>, <<9975792, -23>>, <<10568984, -23>>, <<11197448, -23>>, <<11863283, -23>>, <<12568711, -23>>,
       <<13316085, -23>>, <<14107901, -23>>, <<14946801, -23>>, <<15835583, -23>>, <<8388608, -22>>, <<8887421, -22>>,
       <<9415895, -22>>, <<9975792, -22>>, <<10568984, -22>>, <<11197449, -22>>, <<11863283, -22>>, <<12568711, -22>>,
       <<13316086, -22>>, <<14107901, -22>>, <<14946801, -22>>, <<15835584, -22>>, <<8388608, -21>>, <<8887422, -21>>,
       <<9415895, -21>>, <<9975792, -21>>, <<10568985, -21>>, <<11197449, -21>>, <<11863283, -21>>, <<12568712, -21>>,
       <<13316086, -21>>, <<14107901, -21>>, <<14946802, -21>>, <<15835584, -21>>, <<8388608, -20>>, <<8887422, -20>>,
       <<9415895, -20>>, <<9975792, -20>>, <<10568985, -20>>, <<11197449, -20>>, <<11863283, -20>>, <<12568712, -20>>,
       <<13316086, -20>>, <<14107901, -20>>, <<14946802, -20>>, <<15835584, -20>>, <<8388608, -19>>, <<8887422, -19>>,
       <<9415896, -19>>, <<9975792, -19>>, <<10568985, -19>>, <<11197451, -19>>, <<11863283, -19>>, <<12568712, -19>>,
       <<13316088, -19>>, <<14107901, -19>>, <<14946802, -19>>, <<15835587, -19>>, <<8388608, -18>>, <<8887422, -18>>,
       <<9415896, -18>>, <<9975792, -18>>, <<10568985, -18>>, <<11197451, -18>>, <<11863283, -18>>, <<12568712, -18>>,
       <<13316088, -18>>, <<14107901, -18>>, <<14946802, -18>>, <<15835587, -18>>, <<8388608, -17>>, <<8887422, -17>>,
       <<9415896, -17>>, <<9975792, -17>>, <<10568985, -17>>, <<11197451, -17>>, <<11863283, -17>>, <<12568712, -17>>,
       <<13316088, -17>>, <<14107901, -17>>, <<14946802, -17>>, <<15835587, -17>>, <<8388608, -16>>, <<8887422, -16>>,
       <<9415896, -16>>, <<9975792, -16>>, <<10568985, -16>>, <<11197451, -16>>, <<11863283, -16>>, <<12568712, -16>>,
       <<13316088, -16>>, <<14107901, -16>>, <<14946802, -16>>, <<15835587, -16>>, <<8388608, -15>>, <<8887425, -15>>,
       <<9415896, -15>>, <<9975792, -15>>, <<10568988, -15>>, <<11197451, -15>>, <<11863283, -15>>, <<12568716, -15>>,
       <<13316088, -15>>, <<14107901, -15>>, <<14946807, -15>>, <<15835587, -15>>, <<8388608, -14>>, <<8887425, -14>>,
       <<9415896, -14>>, <<9975792, -14>>, <<10568988, -14>>, <<11197451, -14>>, <<11863283, -14>>, <<12568716, -14>>,
       <<13316088, -14>>, <<14107901, -14>>, <<14946807, -14>>, <<15835587, -14>>, <<8388608, -13>>, <<8887425, -13>>,
       <<9415896, -13>>, <<9975792, -13>>, <<10568988, -13>>, <<11197451, -13>>, <<11863283, -13>>, <<12568716, -13>>,
       <<13316088, -13>>, <<14107901, -13>>, <<14946807, -13>>, <<15835587, -13>>, <<8388608, -12>>, <<8887425, -12>>,
       <<9415896, -12>>, <<9975792, -12>>, <<10568988, -12>>, <<11197451, -12>>, <<11863283, -12>>, <<12568716, -12>>,
       <<13316088, -12>>, <<14107901, -12>>, <<14946807, -12>>, <<15835587, -12>>, <<8388608, -11>>, <<8887425, -11>>,
       <<9415896, -11>>, <<9975792, -11>>, <<10568988, -11>>, <<11197451, -11>>, <<11863283, -11>>, <<12568716, -11>>,
       <<13316088, -11>>, <<14107901, -11>>, <<14946807, -11>>, <<15835587, -11>>, <<8388608, -10>>, <<8887425, -10>>,
       <<9415896, -10>>, <<9975792, -10>>, <<10568988, -10>>, <<11197451, -10>>, <<11863283, -10>>, <<12568716, -10>>,
       <<13316088, -10>>, <<14107901, -10>>, <<14946807, -10>>, <<15835587, -10>>, <<8388608, -9>>, <<8887425, -9>>,
       <<9415896, -9>>, <<9975792, -9>>, <<10568988, -9>>, <<11197451, -9>>, <<11863283, -9>>, <<12568716, -9>>,
       <<13316088, -9>>, <<14107901, -9>>, <<14946807, -9>>, <<15835587, -9>>, <<8388608, -8>>, <<8887425, -8>>,
       <<9415896, -8>>, <<9975792, -8>>, <<10568988, -8>>, <<11197451, -8>>, <<11863283, -8>>, <<12568716, -8>>,
       <<13316088, -8>>, <<14107901, -8>>, <<14946807, -8>>, <<15835587, -8>>, <<8388608, -7>>, <<8887425, -7>>,
       <<9415902, -7>>, <<9975792, -7>>, <<10568988, -7>>, <<11197458, -7>>, <<11863283, -7>>, <<12568716, -7>>,
       <<13316097, -7>>, <<14107901, -7>>, <<14946807, -7>>, <<15835597, -7>>, <<8388608, -6>>, <<8887425, -6>>,
       <<9415902, -6>>, <<9975792, -6>>, <<10568988, -6>>, <<11197458, -6>>, <<11863283, -6>>, <<12568716, -6>>,
       <<13316097, -6>>, <<14107901, -6>>, <<14946807, -6>>, <<15835597, -6>>, <<8388608, -5>>, <<8887425, -5>>,
       <<9415902, -5>>, <<9975792, -5>>, <<10568988, -5>>, <<11197458, -5>>, <<11863283, -5>>, <<12568716, -5>>,
       <<13316097, -5>>, <<14107901, -5>>, <<14946807, -5>>, <<15835597, -5>>, <<8388608, -4>>, <<8887425, -4>>,
       <<9415902, -4>>, <<9975792, -4>>, <<10568988, -4>>, <<11197458, -4>>, <<11863283, -4>>, <<12568716, -4>>,
       <<13316097, -4>>, <<14107901, -4>>, <<14946807, -4>>, <<15835597, -4>>, <<8388608, -3>>, <<8887425, -3>>,
       <<9415902, -3>>, <<9975792, -3>>, <<10568988, -3>>, <<11197458, -3>>, <<11863283, -3>>, <<12568716, -3>>,
       <<13316097, -3>>, <<14107901, -3>>, <<14946807, -3>>, <<15835597, -3>>, <<8388608, -2>>, <<8887425, -2>>,
       <<9415902, -2>>, <<9975792, -2>> >>

\* POW2[i] = (i as f32 / 12.0 / 1000.0).exp2(), as <<mantissa, exponent>>
POW2 ==
    << <<8388608, -23>>, <<8389093, -23>>, <<8389577, -23>>, <<8390062, -23>>, <<8390546, -23>>, <<8391031, -23>>,
       <<8391516, -23>>, <<8392001, -23>>, <<8392485, -23>>, <<8392970, -23>>, <<8393455, -23>>, <<8393940, -23>>,
       <<8394425, -23>>, <<8394909, -23>>, <<8395394, -23>>, <<8395879, -23>>, <<8396364, -23>>, <<8396849, -23>>,
       <<8397334, -23>>, <<8397819, -23>>, <<8398304, -23>>, <<8398790, -23>>, <<8399275, -23>>, <<8399760, -23>>,
       <<8400245, -23>>, <<8400730, -23>>, <<8401216, -23>>, <<8401701, -23>>, <<8402186, -23>>, <<8402672, -23>>,
       <<8403157, -23>>, <<8403642, -23>>, <<8404128, -23>>, <<8404613, -23>>, <<8405099, -23>>, <<8405584, -23>>,
       <<8406070, -23>>, <<8406555, -23>>, <<8407041, -23>>, <<8407527, -23>>, <<8408012, -23>>, <<8408498, -23>>,
       <<8408984, -23>>, <<8409469, -23>>, <<8409955, -23>>, <<8410441, -23>>, <<8410927, -23>>, <<8411413, -23>>,
       <<8411898, -23>>, <<8412384, -23>>, <<8412870, -23>>, <<8413356, -23>>, <<8413842, -23>>, <<8414328, -23>>,
       <<8414814, -23>>, <<8415300, -23>>, <<8415786, -23>>, <<8416273, -23>>, <<8416759, -23>>, <<8417245, -23>>,
       <<8417731, -23>>, <<8418217, -23>>, <<8418704, -23>>, <<8419190, -23>>, <<8419676, -23>>, <<8420163, -23>>,
       <<8420649, -23>>, <<8421135, -23>>, <<8421622, -23>>, <<8422108, -23>>, <<8422595, -23>>, <<8423081, -23>>,
       <<8423568, -23>>, <<8424054, -23>>, <<8424541, -23>>, <<8425028, -23>>, <<8425514, -23>>, <<8426001, -23>>,
       <<8426488, -23>>, <<8426975, -23>>, <<8427461, -23>>, <<8427948, -23>>, <<8428435, -23>>, <<8428922, -23>>,
       <<8429409, -23>>, <<8429896, -23>>, <<8430383, -23>>, <<8430870, -23>>, <<8431357, -23>>, <<8431844, -23>>,
       <<8432331, -23>>, <<8432818, -23>>, <<8433305, -23>>, <<8433792, -23>>, <<8434279, -23>>, <<8434766, -23>>,
       <<8435254, -23>>, <<8435741, -23>>, <<8436228, -23>>, <<8436715, -23>>, <<8437203, -23>>, <<8437690, -23>>,
       <<8438177, -23>>, <<8438665, -23>>, <<8439152, -23>>, <<8439640, -23>>, <<8440127, -23>>, <<8440615, -23>>,
       <<8441102, -23>>, <<8441590, -23>>, <<8442078, -23>>, <<8442565, -23>>, <<8443053, -23>>, <<8443541, -23>>,
       <<8444028, -23>>, <<8444516, -23>>, <<8445004, -23>>, <<8445492, -23>>, <<8445980, -23>>, <<8446467, -23>>,
       <<8446955, -23>>, <<8447443, -23>>, <<8447931, -23>>, <<8448419, -23>>, <<8448907, -23>>, <<8449395, -23>>,
       <<8449883, -23>>, <<8450371, -23>>, <<8450860, -23>>, <<8451348, -23>>, <<8451836, -23>>, <<8452324, -23>>,
       <<8452812, -23>>, <<8453301, -23>>, <<8453789, -23>>, <<8454277, -23>>, <<8454766, -23>>, <<8455254, -23>>,
       <<8455742, -23>>, <<8456231, -23>>, <<8456719, -23>>, <<8457208, -23>>, <<8457696, -23>>, <<8458185, -23>>,
       <<8458673, -23>>, <<8459162, -23>>, <<8459651, -23>>, <<8460139, -23>>, <<8460628, -23>>, <<8461117, -23>>,
       <<8461606, -23>>, <<8462094, -23>>, <<8462583, -23>>, <<8463072, -23>>, <<8463561, -23>>, <<8464050, -23>>,
       <<8464539, -23>>, <<8465028, -23>>, <<8465517, -23>>, <<8466006, -23>>, <<8466495, -23>>, <<8466984, -23>>,
       <<8467473, -23>>, <<8467962, -23>>, <<8468451, -23>>, <<8468940, -23>>, <<8469429, -23>>, <<8469919, -23>>,
       <<8470408, -23>>, <<8470897, -23>>, <<8471386, -23>>, <<8471876, -23>>, <<8472365, -23>>, <<8472855, -23>>,
       <<8473344, -23>>, <<8473833, -23>>, <<8474323, -23>>, <<8474812, -23>>, <<8475302, -23>>, <<8475791, -23>>,
       <<8476281, -23>>, <<8476771, -23>>, <<8477260, -23>>, <<8477750, -23>>, <<8478240, -23>>, <<8478729, -23>>,
       <<8479219, -23>>, <<8479709, -23>>, <<8480199, -23>>, <<8480689, -23>>, <<8481179, -23>>, <<8481669, -23>>,
       <<8482158, -23>>, <<8482648, -23>>, <<8483138, -23>>, <<8483628, -23>>, <<8484118, -23>>, <<8484609, -23>>,
       <<8485099, -23>>, <<8485589, -23>>, <<8486079, -23>>, <<8486569, -23>>, <<8487059, -23>>, <<8487550, -23>>,
       <<8488040, -23>>, <<8488530, -23>>, <<8489020, -23>>, <<8489511, -23>>, <<8490001, -23>>, <<8490492, -23>>,
       <<8490982, -23>>, <<8491473, -23>>, <<8491963, -23>>, <<8492454, -23>>, <<8492944, -23>>, <<8493435, -23>>,
       <<8493925, -23>>, <<8494416, -23>>, <<8494907, -23>>, <<8495397, -23>>, <<8495888, -23>>, <<8496379, -23>>,
       <<8496870, -23>>, <<8497360, -23>>, <<8497851, -23>>, <<8498342, -23>>, <<8498833, -23>>, <<8499324, -23>>,
       <<8499815, -23>>, <<8500306, -23>>, <<8500797, -23>>, <<8501288, -23>>, <<8501779, -23>>, <<8502270, -23>>,
       <<8502761, -23>>, <<8503252, -23>>, <<8503744, -23>>, <<8504235, -23>>, <<8504726, -23>>, <<8505217, -23>>,
       <<8505709, -23>>, <<8506200, -23>>, <<8506691, -23>>, <<8507183, -23>>, <<8507674, -23>>, <<8508165, -23>>,
       <<8508657, -23>>, <<8509148, -23>>, <<8509640, -23>>, <<8510132, -23>>, <<8510623, -23>>, <<8511115, -23>>,
       <<8511606, -23>>, <<8512098, -23>>, <<8512590, -23>>, <<8513081, -23>>, <<8513573, -23>>, <<8514065, -23>>,
       <<8514557, -23>>, <<8515049, -23>>, <<8515540, -23>>, <<8516032, -23>>, <<8516524, -23>>, <<8517016, -23>>,
       <<8517508, -23>>, <<8518000, -23>>, <<8518492, -23>>, <<8518984, -23>>, <<8519476, -23>>, <<8519969, -23>>,
       <<8520461, -23>>, <<8520953, -23>>, <<8521445, -23>>, <<8521937, -23>>, <<8522430, -23>>, <<8522922, -23>>,
       <<8523414, -23>>, <<8523906, -23>>, <<8524399, -23>>, <<8524891, -23>>, <<8525384, -23>>, <<8525876, -23>>,
       <<8526369, -23>>, <<8526861, -23>>, <<8527354, -23>>, <<8527846, -23>>, <<8528339, -23>>, <<8528831, -23>>,
       <<8529324, -23>>, <<8529817, -23>>, <<8530310, -23>>, <<8530802, -23>>, <<8531295, -23>>, <<8531788, -23>>,
       <<8532281, -23>>, <<8532774, -23>>, <<8533266, -23>>, <<8533759, -23>>, <<8534252, -23>>, <<8534745, -23>>,
       <<8535238, -23>>, <<8535731, -23>>, <<8536224, -23>>, <<8536717, -23>>, <<8537211, -23>>, <<8537704, -23>>,
       <<8538197, -23>>, <<8538690, -23>>, <<8539183, -23>>, <<8539677, -23>>, <<8540170, -23>>, <<8540663, -23>>,
       <<8541157, -23>>, <<8541650, -23>>, <<8542143, -23>>, <<8542637, -23>>, <<8543130, -23>>, <<8543624, -23>>,
       <<8544117, -23>>, <<8544611, -23>>, <<8545104, -23>>, <<8545598, -23>>, <<8546092, -23>>, <<8546585, -23>>,
       <<8547079, -23>>, <<8547573, -23>>, <<8548066, -23>>, <<8548560, -23>>, <<8549054, -23>>, <<8549548, -23>>,
       <<8550042, -23>>, <<8550535, -23>>, <<8551029, -23>>, <<8551523, -23>>, <<8552017, -23>>, <<8552511, -23>>,
       <<8553005, -23>>, <<8553499, -23>>, <<8553993, -23>>, <<8554488, -23>>, <<8554982, -23>>, <<8555476, -23>>,
       <<8555970, -23>>, <<8556464, -23>>, <<8556959, -23>>, <<8557453, -23>>, <<8557947, -23>>, <<8558441, -23>>,
       <<8558936, -23>>, <<8559430, -23>>, <<8559925, -23>>, <<8560419, -23>>, <<8560914, -23>>, <<8561408, -23>>,
       <<8561903, -23>>, <<8562397, -23>>, <<8562892, -23>>, <<8563386, -23>>, <<8563881, -23>>, <<8564376, -23>>,
       <<8564870, -23>>, <<8565365, -23>>, <<8565860, -23>>, <<8566355, -23>>, <<8566850, -23>>, <<8567344, -23>>,
       <<8567839, -23>>, <<8568334, -23>>, <<8568829, -23>>, <<8569324, -23>>, <<8569819, -23>>, <<8570314, -23>>,
       <<8570809, -23>>, <<8571304, -23>>, <<8571799, -23>>, <<8572295, -23>>, <<8572790, -23>>, <<8573285, -23>>,
       <<8573780, -23>>, <<8574275, -23>>, <<8574771, -23>>, <<8575266, -23>>, <<8575761, -23>>, <<8576257, -23>>,
       <<8576752, -23>>, <<8577248, -23>>, <<8577743, -23>>, <<8578239, -23>>, <<8578734, -23>>, <<8579230, -23>>,
       <<8579725, -23>>, <<8580221, -23>>, <<8580716, -23>>, <<8581212, -23>>, <<8581708, -23>>, <<8582203, -23>>,
       <<8582699, -23>>, <<8583195, -23>>, <<8583691, -23>>, <<8584187, -23>>, <<8584682, -23>>, <<8585178, -23>>,
       <<8585674, -23>>, <<8586170, -23>>, <<8586666, -23>>, <<8587162, -23>>, <<8587658, -23>>, <<8588154, -23>>,
       <<8588650, -23>>, <<8589146, -23>>, <<8589643, -23>>, <<8590139, -23>>, <<8590635, -23>>, <<8591131, -23>>,
       <<8591627, -23>>, <<8592124, -23>>, <<8592620, -23>>, <<8593116, -23>>, <<8593613, -23>>, <<8594109, -23>>,
       <<8594606, -23>>, <<8595102, -23>>, <<8595599, -23>>, <<8596095, -23>>, <<8596592, -23>>, <<8597088, -23>>,
       <<8597585, -23>>, <<8598081, -23>>, <<8598578, -23>>, <<8599075, -23>>, <<8599571, -23>>, <<8600068, -23>>,
       <<8600565, -23>>, <<8601062, -23>>, <<8601559, -23>>, <<8602055, -23>>, <<8602552, -23>>, <<8603049, -23>>,
       <<8603546, -23>>, <<8604043, -23>>, <<8604540, -23>>, <<8605037, -23>>, <<8605534, -23>>, <<8606031, -23>>,
       <<8606528, -23>>, <<8607026, -23>>, <<8607523, -23>>, <<8608020, -23>>, <<8608517, -23>>, <<8609015, -23>>,
       <<8609512, -23>>, <<8610009, -23>>, <<8610506, -23>>, <<8611004, -23>>, <<8611501, -23>>, <<8611999, -23>>,
       <<8612496, -23>>, <<8612994, -23>>, <<8613491, -23>>, <<8613989, -23>>, <<8614486, -23>>, <<8614984, -23>>,
       <<8615482, -23>>, <<8615979, -23>>, <<8616477, -23>>, <<8616975, -23>>, <<8617472, -23>>, <<8617970, -23>>,
       <<8618468, -23>>, <<8618966, -23>>, <<8619464, -23>>, <<8619962, -23>>, <<8620459, -23>>, <<8620957, -23>>,
       <<8621455, -23>>, <<8621953, -23>>, <<8622451, -23>>, <<8622949, -23>>, <<8623448, -23>>, <<8623946, -23>>,
       <<8624444, -23>>, <<8624942, -23>>, <<8625440, -23>>, <<8625939, -23>>, <<8626437, -23>>, <<8626935, -23>>,
       <<8627433, -23>>, <<8627932, -23>>, <<8628430, -23>>, <<8628929, -23>>, <<8629427, -23>>, <<8629925, -23>>,
       <<8630424, -23>>, <<8630922, -23>>, <<8631421, -23>>, <<8631920, -23>>, <<8632418, -23>>, <<8632917, -23>>,
       <<8633416, -23>>, <<8633914, -23>>, <<8634413, -23>>, <<8634912, -23>>, <<8635411, -23>>, <<8635909, -23>>,
       <<8636408, -23>>, <<8636907, -23>>, <<8637406, -23>>, <<8637905, -23>>, <<8638404, -23>>, <<8638903, -23>>,
       <<8639402, -23>>, <<8639901, -23>>, <<8640400, -23>>, <<8640899, -23>>, <<8641398, -23>>, <<8641897, -23>>,
       <<8642397, -23>>, <<8642896, -23>>, <<8643395, -23>>, <<8643894, -23>>, <<8644394, -23>>, <<8644893, -23>>,
       <<8645392, -23>>, <<8645892, -23>>, <<8646391, -23>>, <<8646891, -23>>, <<8647390, -23>>, <<8647890, -23>>,
       <<8648389, -23>>, <<8648889, -23>>, <<8649388, -23>>, <<8649888, -23>>, <<8650388, -23>>, <<8650887, -23>>,
       <<8651387, -23>>, <<8651887, -23>>, <<8652386, -23>>, <<8652886, -23>>, <<8653386, -23>>, <<8653886, -23>>,
       <<8654386, -23>>, <<8654886, -23>>, <<8655386, -23>>, <<8655886, -23>>, <<8656386, -23>>, <<8656886, -23>>,
       <<8657386, -23>>, <<8657886, -23>>, <<8658386, -23>>, <<8658886, -23>>, <<8659386, -23>>, <<8659886, -23>>,
       <<8660387, -23>>, <<8660887, -23>>, <<8661387, -23>>, <<8661887, -23>>, <<8662388, -23>>, <<8662888, -23>>,
       <<8663389, -23>>, <<8663889, -23>>, <<8664389, -23>>, <<8664890, -23>>, <<8665390, -23>>, <<8665891, -23>>,
       <<8666392, -23>>, <<8666892, -23>>, <<8667393, -23>>, <<8667894, -23>>, <<8668394, -23>>, <<8668895, -23>>,
       <<8669396, -23>>, <<8669896, -23>>, <<8670397, -23>>, <<8670898, -23>>, <<8671399, -23>>, <<8671900, -23>>,
       <<8672401, -23>>, <<8672902, -23>>, <<8673403, -23>>, <<8673904, -23>>, <<8674405, -23>>, <<8674906, -23>>,
       <<8675407, -23>>, <<8675908, -23>>, <<8676409, -23>>, <<8676910, -23>>, <<8677412, -23>>, <<8677913, -23>>,
       <<8678414, -23>>, <<8678915, -23>>, <<8679417, -23>>, <<8679918, -23>>, <<8680419, -23>>, <<8680921, -23>>,
       <<8681422, -23>>, <<8681924, -23>>, <<8682425, -23>>, <<8682927, -23>>, <<8683428, -23>>, <<8683930, -23>>,
       <<8684432, -23>>, <<8684933, -23>>, <<8685435, -23>>, <<8685937, -23>>, <<8686438, -23>>, <<8686940, -23>>,
       <<8687442, -23>>, <<8687944, -23>>, <<8688446, -23>>, <<8688947, -23>>, <<8689449, -23>>, <<8689951, -23>>,
       <<8690453, -23>>, <<8690955, -23>>, <<8691457, -23>>, <<8691959, -23>>, <<8692461, -23>>, <<8692964, -23>>,
       <<8693466, -23>>, <<8693968, -23>>, <<8694470, -23>>, <<8694972, -23>>, <<8695475, -23>>, <<8695977, -23>>,
       <<8696479, -23>>, <<8696981, -23>>, <<8697484, -23>>, <<8697986, -23>>, <<8698489, -23>>, <<8698991, -23>>,
       <<8699494, -23>>, <<8699996, -23>>, <<8700499, -23>>, <<8701001, -23>>, <<8701504, -23>>, <<8702007, -23>>,
       <<8702509, -23>>, <<8703012, -23>>, <<8703515, -23>>, <<8704017, -23>>, <<8704520, -23>>, <<8705023, -23>>,
       <<8705526, -23>>, <<8706029, -23>>, <<8706532, -23>>, <<8707034, -23>>, <<8707537, -23>>, <<8708040, -23>>,
       <<8708543, -23>>, <<8709046, -23>>, <<8709550, -23>>, <<8710053, -23>>, <<8710556, -23>>, <<8711059, -23>>,
       <<8711562, -23>>, <<8712065, -23>>, <<8712569, -23>>, <<8713072, -23>>, <<8713575, -23>>, <<8714078, -23>>,
       <<8714582, -23>>, <<8715085, -23>>, <<8715589, -23>>, <<8716092, -23>>, <<8716596, -23>>, <<8717099, -23>>,
       <<8717603, -23>>, <<8718106, -23>>, <<8718610, -23>>, <<8719113, -23>>, <<8719617, -23>>, <<8720121, -23>>,
       <<8720624, -23>>, <<8721128, -23>>, <<8721632, -23>>, <<8722136, -23>>, <<8722639, -23>>, <<8723143, -23>>,
       <<8723647, -23>>, <<8724151, -23>>, <<8724655, -23>>, <<8725159, -23>>, <<8725663, -23>>, <<8726167, -23>>,
       <<8726671, -23>>, <<8727175, -23>>, <<8727679, -23>>, <<8728183, -23>>, <<8728688, -23>>, <<8729192, -23>>,
       <<8729696, -23>>, <<8730200, -23>>, <<8730705, -23>>, <<8731209, -23>>, <<8731713, -23>>, <<8732218, -23>>,
       <<8732722, -23>>, <<8733227, -23>>, <<8733731, -23>>, <<8734235, -23>>, <<8734740, -23>>, <<8735245, -23>>,
       <<8735749, -23>>, <<8736254, -23>>, <<8736758, -23>>, <<8737263, -23>>, <<8737768, -23>>, <<8738273, -23>>,
       <<8738777, -23>>, <<8739282, -23>>, <<8739787, -23>>, <<8740292, -23>>, <<8740797, -23>>, <<8741301, -23>>,
       <<8741806, -23>>, <<8742311, -23>>, <<8742816, -23>>, <<8743321, -23>>, <<8743826, -23>>, <<8744332, -23>>,
       <<8744837, -23>>, <<8745342, -23>>, <<8745847, -23>>, <<8746352, -23>>, <<8746857, -23>>, <<8747363, -23>>,
       <<8747868, -23>>, <<8748373, -23>>, <<8748879, -23>>, <<8749384, -23>>, <<8749889, -23>>, <<8750395, -23>>,
       <<8750900, -23>>, <<8751406, -23>>, <<8751911, -23>>, <<8752417, -23>>, <<8752922, -23>>, <<8753428, -23>>,
       <<8753934, -23>>, <<8754439, -23>>, <<8754945, -23>>, <<8755451, -23>>, <<8755956, -23>>, <<8756462, -23>>,
       <<8756968, -23>>, <<8757474, -23>>, <<8757980, -23>>, <<8758486, -23>>, <<8758991, -23>>, <<8759497, -23>>,
       <<8760003, -23>>, <<8760509, -23>>, <<8761015, -23>>, <<8761522, -23>>, <<8762028, -23>>, <<8762534, -23>>,
       <<8763040, -23>>, <<8763546, -23>>, <<8764052, -23>>, <<8764559, -23>>, <<8765065, -23>>, <<8765571, -23>>,
       <<8766077, -23>>, <<8766584, -23>>, <<8767090, -23>>, <<8767597, -23>>, <<8768103, -23>>, <<8768610, -23>>,
       <<8769116, -23>>, <<8769623, -23>>, <<8770129, -23>>, <<8770636, -23>>, <<8771142, -23>>, <<8771649, -23>>,
       <<8772156, -23>>, <<8772663, -23>>, <<8773169, -23>>, <<8773676, -23>>, <<8774183, -23>>, <<8774690, -23>>,
       <<8775196, -23>>, <<8775703, -23>>, <<8776210, -23>>, <<8776717, -23>>, <<8777224, -23>>, <<8777731, -23>>,
       <<8778238, -23>>, <<8778745, -23>>, <<8779252, -23>>, <<8779760, -23>>, <<8780267, -23>>, <<8780774, -23>>,
       <<8781281, -23>>, <<8781788, -23>>, <<8782296, -23>>, <<8782803, -23>>, <<8783310, -23>>, <<8783818, -23>>,
       <<8784325, -23>>, <<8784832, -23>>, <<8785340, -23>>, <<8785847, -23>>, <<8786355, -23>>, <<8786862, -23>>,
       <<8787370, -23>>, <<8787878, -23>>, <<8788385, -23>>, <<8788893, -23>>, <<8789400, -23>>, <<8789908, -23>>,
       <<8790416, -23>>, <<8790924, -23>>, <<8791431, -23>>, <<8791939, -23>>, <<8792447, -23>>, <<8792955, -23>>,
       <<8793463, -23>>, <<8793971, -23>>, <<8794479, -23>>, <<8794987, -23>>, <<8795495, -23>>, <<8796003, -23>>,
       <<8796511, -23>>, <<8797019, -23>>, <<8797527, -23>>, <<8798036, -23>>, <<8798544, -23>>, <<8799052, -23>>,
       <<8799560, -23>>, <<8800069, -23>>, <<8800577, -23>>, <<8801085, -23>>, <<8801594, -23>>, <<8802102, -23>>,
       <<8802610, -23>>, <<8803119, -23>>, <<8803627, -23>>, <<8804136, -23>>, <<8804645, -23>>, <<8805153, -23>>,
       <<8805662, -23>>, <<8806170, -23>>, <<8806679, -23>>, <<8807188, -23>>, <<8807697, -23>>, <<8808205, -23>>,
       <<8808714, -23>>, <<8809223, -23>>, <<8809732, -23>>, <<8810241, -23>>, <<8810750, -23>>, <<8811259, -23>>,
       <<8811768, -23>>, <<8812277, -23>>, <<8812786, -23>>, <<8813295, -23>>, <<8813804, -23>>, <<8814313, -23>>,
       <<8814822, -23>>, <<8815331, -23>>, <<8815840, -23>>, <<8816350, -23>>, <<8816859, -23>>, <<8817368, -23>>,
       <<8817877, -23>>, <<8818387, -23>>, <<8818896, -23>>, <<8819406, -23>>, <<8819915, -23>>, <<8820425, -23>>,
       <<8820934, -23>>, <<8821444, -23>>, <<8821953, -23>>, <<8822463, -23>>, <<8822972, -23>>, <<8823482, -23>>,
       <<8823992, -23>>, <<8824501, -23>>, <<8825011, -23>>, <<8825521, -23>>, <<8826031, -23>>, <<8826541, -23>>,
       <<8827050, -23>>, <<8827560, -23>>, <<8828070, -23>>, <<8828580, -23>>, <<8829090, -23>>, <<8829600, -23>>,
       <<8830110, -23>>, <<8830620, -23>>, <<8831130, -23>>, <<8831640, -23>>, <<8832151, -23>>, <<8832661, -23>>,
       <<8833171, -23>>, <<8833681, -23>>, <<8834191, -23>>, <<8834702, -23>>, <<8835212, -23>>, <<8835722, -23>>,
       <<8836233, -23>>, <<8836743, -23>>, <<8837254, -23>>, <<8837764, -23>>, <<8838275, -23>>, <<8838785, -23>>,
       <<8839296, -23>>, <<8839806, -23>>, <<8840317, -23>>, <<8840828, -23>>, <<8841338, -23>>, <<8841849, -23>>,
       <<8842360, -23>>, <<8842871, -23>>, <<8843381, -23>>, <<8843892, -23>>, <<8844403, -23>>, <<8844914, -23>>,
       <<8845425, -23>>, <<8845936, -23>>, <<8846447, -23>>, <<8846958, -23>>, <<8847469, -23>>, <<8847980, -23>>,
       <<8848491, -23>>, <<8849002, -23>>, <<8849513, -23>>, <<8850024, -23>>, <<8850536, -23>>, <<8851047, -23>>,
       <<8851558, -23>>, <<8852069, -23>>, <<8852581, -23>>, <<8853092, -23>>, <<8853604, -23>>, <<8854115, -23>>,
       <<8854626, -23>>, <<8855138, -23>>, <<8855649, -23>>, <<8856161, -23>>, <<8856672, -23>>, <<8857184, -23>>,
       <<8857696, -23>>, <<8858207, -23>>, <<8858719, -23>>, <<8859231, -23>>, <<8859742, -23>>, <<8860254, -23>>,
       <<8860766, -23>>, <<8861278, -23>>, <<8861790, -23>>, <<8862302, -23>>, <<8862814, -23>>, <<8863325, -23>>,
       <<8863837, -23>>, <<8864350, -23>>, <<8864862, -23>>, <<8865374, -23>>, <<8865886, -23>>, <<8866398, -23>>,
       <<8866910, -23>>, <<8867422, -23>>, <<8867934, -23>>, <<8868447, -23>>, <<8868959, -23>>, <<8869471, -23>>,
       <<8869984, -23>>, <<8870496, -23>>, <<8871008, -23>>, <<8871521, -23>>, <<8872033, -23>>, <<8872546, -23>>,
       <<8873058, -23>>, <<8873571, -23>>, <<8874083, -23>>, <<8874596, -23>>, <<8875109, -23>>, <<8875621, -23>>,
       <<8876134, -23>>, <<8876647, -23>>, <<8877159, -23>>, <<8877672, -23>>, <<8878185, -23>>, <<8878698, -23>>,
       <<8879211, -23>>, <<8879724, -23>>, <<8880236, -23>>, <<8880749, -23>>, <<8881262, -23>>, <<8881775, -23>>,
       <<8882289, -23>>, <<8882802, -23>>, <<8883315, -23>>, <<8883828, -23>>, <<8884341, -23>>, <<8884854, -23>>,
       <<8885367, -23>>, <<8885881, -23>>, <<8886394, -23>>, <<8886907, -23>>, <<8887421, -23>> >>

\* 2^(s/12) for the semitones s of an octave, rounded to f32
EXACT_SEMITONE ==
    << <<8388608, -23>>, <<8887421, -23>>, <<9415894, -23>>, <<9975792, -23>>, <<10568984, -23>>, <<11197448, -23>>,
       <<11863283, -23>>, <<12568711, -23>>, <<13316085, -23>>, <<14107901, -23>>, <<14946800, -23>>, <<15835583, -23>> >>

\* 2^(c/1200) for the cents c of a semitone, rounded to f32
EXACT_CENT ==
    << <<8388608, -23>>, <<8393455, -23>>, <<8398304, -23>>, <<8403157, -23>>, <<8408012, -23>>, <<8412870, -23>>,
       <<8417731, -23>>, <<8422595, -23>>, <<8427461, -23>>, <<8432331, -23>>, <<8437203, -23>>, <<8442078, -23>>,
       <<8446955, -23>>, <<8451836, -23>>, <<8456719, -23>>, <<8461606, -23>>, <<8466495, -23>>, <<8471386, -23>>,
       <<8476281, -23>>, <<8481179, -23>>, <<8486079, -23>>, <<8490982, -23>>, <<8495888, -23>>, <<8500797, -23>>,
       <<8505709, -23>>, <<8510623, -23>>, <<8515540, -23>>, <<8520461, -23>>, <<8525384, -23>>, <<8530310, -23>>,
       <<8535238, -23>>, <<8540170, -23>>, <<8545104, -23>>, <<8550042, -23>>, <<8554982, -23>>, <<8559925, -23>>,
       <<8564870, -23>>, <<8569819, -23>>, <<8574771, -23>>, <<8579725, -23>>, <<8584682, -23>>, <<8589643, -23>>,
       <<8594606, -23>>, <<8599571, -23>>, <<8604540, -23>>, <<8609512, -23>>, <<8614486, -23>>, <<8619464, -23>>,
       <<8624444, -23>>, <<8629427, -23>>, <<8634413, -23>>, <<8639402, -23>>, <<8644394, -23>>, <<8649388, -23>>,
       <<8654386, -23>>, <<8659386, -23>>, <<8664389, -23>>, <<8669396, -23>>, <<8674405, -23>>, <<8679417, -23>>,
       <<8684432, -23>>, <<8689449, -23>>, <<8694470, -23>>, <<8699494, -23>>, <<8704520, -23>>, <<8709549, -23>>,
       <<8714582, -23>>, <<8719617, -23>>, <<8724655, -23>>, <<8729696, -23>>, <<8734740, -23>>, <<8739787, -23>>,
       <<8744837, -23>>, <<8749889, -23>>, <<8754945, -23>>, <<8760003, -23>>, <<8765065, -23>>, <<8770129, -23>>,
       <<8775196, -23>>, <<8780267, -23>>, <<8785340, -23>>, <<8790416, -23>>, <<8795495, -23>>, <<8800577, -23>>,
       <<8805662, -23>>, <<8810750, -23>>, <<8815840, -23>>, <<8820934, -23>>, <<8826031, -23>>, <<8831130, -23>>,
       <<8836233, -23>>, <<8841338, -23>>, <<8846447, -23>>, <<8851558, -23>>, <<8856672, -23>>, <<8861790, -23>>,
       <<8866910, -23>>, <<8872033, -23>>, <<8877159, -23>>, <<8882288, -23>> >>

PITCH_at(i) == F32_of(PITCH[i + 1])
POW2_at(i) == F32_of(POW2[i + 1])

clamp(x, lo, hi) == IF x < lo THEN lo ELSE IF x > hi THEN hi ELSE x

\* midi_pitch_to_freq that reads the semitone table one entry too high
midi_pitch_to_freq_next_semitone(pitch) ==
    LET pitch_int == f32_to_i32(pitch)
        a == f32_mul(f32_sub(pitch, f32_from_int(pitch_int)), F32_1000)
        e == pitch_int + 256
        pow2idx == f32_to_usize(a)
        pow2frac == f32_sub(a, f32_from_int(pow2idx))
        p == PITCH_at(clamp(e - 68, 0, PITCH_TABLE_SIZE - 1))
        pow2 == f32_add(f32_mul(f32_sub(F32_ONE, pow2frac), POW2_at(pow2idx)),
                        f32_mul(pow2frac, POW2_at(pow2idx + 1)))
    IN f32_mul(f32_mul(A4_FREQ, p), pow2)

midi_pitch_to_freq(pitch) ==
    LET pitch_int == f32_to_i32(pitch)
        a == f32_mul(f32_sub(pitch, f32_from_int(pitch_int)), F32_1000)
        e == pitch_int + 256
        pow2idx == f32_to_usize(a)
        pow2frac == f32_sub(a, f32_from_int(pow2idx))
        p == PITCH_at(clamp(e - A4_PITCH, 0, PITCH_TABLE_SIZE - 1))
        pow2 == f32_add(f32_mul(f32_sub(F32_ONE, pow2frac), POW2_at(pow2idx)),
                        f32_mul(pow2frac, POW2_at(pow2idx + 1)))
    IN f32_mul(f32_mul(A4_FREQ, p), pow2)

\* 440 * 2^((pitch - 69) / 12) for the pitch of i semitones and c cents: the
\* octave is a power of two, the semitone and the cent come from exact values
exact_freq(i, c) ==
    LET k == 100 * (i - A4_PITCH) + c
        octave == k \div 1200
        semitone == (k % 1200) \div 100
    IN f32_ldexp(f32_mul(f32_mul(A4_FREQ, F32_of(EXACT_SEMITONE[semitone + 1])),
                         F32_of(EXACT_CENT[(k % 100) + 1])), octave)

\* the pitches of the test: p = i as f32 + c as f32 * 0.01
MidiPitches == 0..127
MidiCents == 0..98
test_pitch(i, c) == f32_add(f32_from_int(i), f32_mul(f32_from_int(c), F32_CENT))

MidiInit ==
    /\ EnvOff /\ ProcOff /\ MaskOff /\ FiltOff /\ OscOff /\ GlideOff /\ SmoothOff
    /\ legacy = FALSE
    /\ voices = <<>>
    /\ time = 0
    /\ params = DefaultParams(FALSE)
    /\ env_chg = {}
    /\ last = NoOp("new")
    /\ \E i \in MidiPitches, c \in MidiCents :
          midi = [pc |-> "call", i |-> i, c |-> c, pitch |-> test_pitch(i, c),
                  freq |-> F32_ZERO]

\* one call of midi_pitch_to_freq
MidiCall ==
    /\ midi.pc = "call"
    /\ midi' = [midi EXCEPT !.pc = "done", !.freq = midi_pitch_to_freq(midi.pitch)]

MidiNext ==
    \/ /\ MidiCall
       /\ UNCHANGED <<envVars, synthVars, procVars, maskVars, filt, osc, glide, smooth>>

SpecMidi == MidiInit /\ [][MidiNext]_vars

----------------------------------------------------------------------------
(* SpecFilt: the coefficients of one HuovilainenMoog filter (huovilainen.rs) *)
(* over every sequence of process calls. Values are in units of 1 / SCALE,   *)
(* tune in units of 1. The stage and delay arrays, which the coefficients    *)
(* never read, are left out.                                                 *)

\* cutoffs in Hz, from zero to above half of some sample rates
FiltCutoffs == {0, 20, 1000, 10000, 30000}
\* resonances 0.0, 0.5 and 1.0
FiltResonances == {0, 5000, 10000}
FiltSampleRates == {44100, 48000, 96000}

\* 2.0 * PI
TWO_PI == 62832
\* 1.0 / THERMAL, over SCALE
INV_THERMAL == 4
\* terms of the series that stands for f64::exp
ExpTerms == 10

RECURSIVE ExpSeries(_, _, _)
ExpSeries(x, term, k) ==
    IF k > ExpTerms THEN 0
    ELSE LET t == RoundDiv(Mul(term, -x), k)
         IN t + ExpSeries(x, t, k + 1)

\* (-x).exp()
exp_neg(x) == SCALE + ExpSeries(x, SCALE, 1)

\* HuovilainenMoog::new
HuovilainenMoog_new ==
    [tune |-> 0, acr |-> 0, res_quad |-> 0, coeff_cutoff |-> 0, coeff_resonance |-> 0]

\* compute_coeffs of synth/huovilainen.rs, which has no cache: the body of
\* compute_coeffs of huovilainen.rs below its early return
compute_coeffs_always(f, cutoff, resonance, sample_rate) ==
    LET total_cutoff == clamp(cutoff, 0, sample_rate \div 2)
        fc == RoundDiv(total_cutoff * SCALE, sample_rate)
        half_fc == RoundDiv(fc, 2)
        fc2 == Mul(fc, fc)
        fc3 == Mul(Mul(fc, fc), fc)
        fcr == Mul(18730, fc3) + Mul(4955, fc2) - Mul(6490, fc) + 9988
        acr == 9968 + Mul(18409, fc) - Mul(39364, fc2)
    IN [f EXCEPT !.acr = acr,
                 !.tune = (SCALE - exp_neg(Mul(Mul(TWO_PI, half_fc), fcr))) * INV_THERMAL,
                 !.res_quad = 4 * Mul(resonance, acr)]

\* HuovilainenMoog::compute_coeffs
compute_coeffs(f, cutoff, resonance, sample_rate) ==
    IF f.coeff_cutoff = cutoff /\ f.coeff_resonance = resonance THEN f
    ELSE [compute_coeffs_always(f, cutoff, resonance, sample_rate)
             EXCEPT !.coeff_cutoff = cutoff, !.coeff_resonance = resonance]

FiltInit ==
    /\ EnvOff /\ ProcOff /\ MaskOff /\ MidiOff /\ OscOff /\ GlideOff /\ SmoothOff
    /\ legacy = FALSE
    /\ voices = <<>>
    /\ time = 0
    /\ params = DefaultParams(FALSE)
    /\ env_chg = {}
    /\ last = NoOp("new")
    /\ filt = [pc |-> "new", f |-> HuovilainenMoog_new,
               cutoff |-> 0, resonance |-> 0, sample_rate |-> 44100]

\* Filter::process, as far as the coefficients go
FiltProcess ==
    \E c \in FiltCutoffs, r \in FiltResonances, sr \in FiltSampleRates :
        filt' = [pc |-> "called", f |-> compute_coeffs(filt.f, c, r, sr),
                 cutoff |-> c, resonance |-> r, sample_rate |-> sr]

\* the owner replaces the filter by a new one, as Voice::new does
FiltNew ==
    /\ filt.pc = "called"
    /\ filt' = [filt EXCEPT !.pc = "new", !.f = HuovilainenMoog_new]

FiltNext ==
    \/ /\ \/ FiltProcess
          \/ FiltNew
       /\ UNCHANGED <<envVars, synthVars, procVars, maskVars, midi, osc, glide, smooth>>

SpecFilt == FiltInit /\ [][FiltNext]_vars

----------------------------------------------------------------------------
(* SpecOsc: the phase of one Oscillator (synth/oscillator.rs) over every    *)
(* sequence of generate and trig calls. A phase or a pulse width is a       *)
(* multiple of 1 / PHASE_ONE, which f64 adds and subtracts exactly. The     *)
(* band-limited step buffer, which add_blep and generate fill and drain     *)
(* without touching the phase, is left out.                                 *)

\* 1.0 as a phase
PHASE_ONE == 8
\* sample rate in Hz; the frequencies are 0 .. OscSampleRate - 1 Hz
OscSampleRate == 8
OscFreqs == 0..(OscSampleRate - 1)
WaveForms == {"Saw", "Square", "Sine", "UnipolarSquare", "Triangle"}
\* the pulse widths 0.0 ..= 1.0 of percentage_param
PulseWidths == 0..PHASE_ONE

\* the phase after Oscillator::generate
generate_phase(phase, waveform, freq, pulse_width, sample_rate) ==
    IF freq <= 0 THEN phase
    ELSE LET dp == (freq * PHASE_ONE) \div sample_rate
             p == phase + dp
         IN IF waveform = "Square"
            THEN IF p > pulse_width /\ p - dp <= pulse_width THEN p
                 ELSE IF p > PHASE_ONE THEN p - PHASE_ONE
                 ELSE p
            ELSE IF p > PHASE_ONE THEN p - PHASE_ONE ELSE p

OscInit ==
    /\ EnvOff /\ ProcOff /\ MaskOff /\ MidiOff /\ FiltOff /\ GlideOff /\ SmoothOff
    /\ legacy = FALSE
    /\ voices = <<>>
    /\ time = 0
    /\ params = DefaultParams(FALSE)
    /\ env_chg = {}
    /\ last = NoOp("new")
    /\ \E ph \in 0..(PHASE_ONE - 1) :
          osc = [pc |-> "new", phase |-> ph, waveform |-> "Saw", freq |-> 0,
                 pulse_width |-> 0]

\* Oscillator::generate
OscGenerate ==
    \E w \in WaveForms, fr \in OscFreqs, pw \in PulseWidths :
        osc' = [pc |-> "generated",
                phase |-> generate_phase(osc.phase, w, fr, pw, OscSampleRate),
                waveform |-> w, freq |-> fr, pulse_width |-> pw]

\* Oscillator::trig
OscTrig ==
    osc' = [osc EXCEPT !.pc = "trig", !.phase = 0]

OscNext ==
    \/ /\ \/ OscGenerate
          \/ OscTrig
       /\ UNCHANGED <<envVars, synthVars, procVars, maskVars, midi, filt, glide, smooth>>

SpecOsc == OscInit /\ [][OscNext]_vars

----------------------------------------------------------------------------
(* SpecPitch: the pitch of one Voice (voice.rs, synth/voice.rs) over every   *)
(* sequence of note_on and generate calls. Semitones are in units of         *)
(* 1 / SEMITONE and the portamento in hundredths, so that 100.0 * portamento *)
(* is the number itself.                                                     *)

\* one semitone
SEMITONE == 8

\* UNISON_DETUNE_PATTERN[nvoices], the row of nvoices at index nvoices + 1
UNISON_DETUNE_PATTERN ==
    << <<>>,
       <<0>>,
       <<-10000, 10000>>,
       <<-10000, 0, 10000>>,
       <<-10000, -5000, 5000, 10000>>,
       <<-10000, -5000, 0, 5000, 10000>>,
       <<-10000, -6667, -3333, 3333, 6667, 10000>>,
       <<-10000, -6667, -3333, 0, 3333, 6667, 10000>> >>

\* the notes, unison counts and parameter values the calls draw from
PitchNotes == {0, 1}
PitchUnisons == {1, 2, 3}
Portamentos == {0, 2}
OscDetunes == {0, 1}
UnisonDetunes == {0, 2}
\* states[STATE_BEND] of the legacy variant, in semitones
Bends == {0, SEMITONE}

\* the pitch fields of Voice::new
PitchVoice_new == [note |-> 0, target_note |-> 0, bend |-> 0, unison |-> 1]

\* Voice::get_oscillator_semitone: the voice after the call and the value returned
get_oscillator_semitone(v, detune, portamento) ==
    LET target == v.target_note * SEMITONE
        note == IF portamento <= 0 THEN target
                ELSE v.note + RoundDiv(target - v.note, portamento)
    IN [v |-> [v EXCEPT !.note = note], semitone |-> note + v.bend + detune]

\* the calls of get_oscillator_semitone for the filter key tracking
KeytrackCall == << [carrier |-> "keytrack", v |-> 0, detune |-> 0, offset |-> 0, arg |-> 0] >>

\* the calls of Voice::frequency for one sample: every unison index of osc1,
\* then every unison index of osc2, with the detune argument of each
CarrierCalls(v, in) ==
    LET pattern == UNISON_DETUNE_PATTERN[v.unison + 1]
        of(carrier, detune) ==
            [k \in 1..v.unison |->
                [carrier |-> carrier, v |-> k - 1, detune |-> detune,
                 offset |-> Mul(pattern[k], in.unison_detune),
                 arg |-> detune + Mul(pattern[k], in.unison_detune) + v.bend]]
    IN of("osc1", in.osc1_detune) \o of("osc2", in.osc2_detune)

\* the calls one after the other: the voice after them and, for each call,
\* the semitone passed to midi_pitch_to_freq and the glided note it used
RECURSIVE RunCalls(_, _, _, _)
RunCalls(v, calls, portamento, done) ==
    IF calls = <<>> THEN [v |-> v, calls |-> done]
    ELSE LET c == Head(calls)
             r == get_oscillator_semitone(v, c.arg, portamento)
         IN RunCalls(r.v, Tail(calls), portamento,
                     Append(done, [carrier |-> c.carrier, v |-> c.v, detune |-> c.detune,
                                   offset |-> c.offset, semitone |-> r.semitone,
                                   note |-> r.v.note]))

\* the per-sample loop of Voice::generate: lib.rs tracks the key inside the
\* loop, the legacy variant once before it
RECURSIVE RunSamples(_, _, _, _, _, _)
RunSamples(lgc, v, in, portamento, n, samples) ==
    IF n = 0 THEN [v |-> v, samples |-> samples]
    ELSE LET calls == (IF lgc THEN <<>> ELSE KeytrackCall) \o CarrierCalls(v, in)
             r == RunCalls(v, calls, portamento, <<>>)
         IN RunSamples(lgc, r.v, in, portamento, n - 1,
                       Append(samples, [before |-> v.note, calls |-> r.calls,
                                        after |-> r.v.note]))

\* the pitch part of Voice::generate over a block of in.block_len samples
pitch_generate(lgc, v, in) ==
    LET bent == [v EXCEPT !.bend = IF lgc THEN in.bend_state ELSE 0]
        portamento == IF in.poly_mode THEN 0 ELSE in.portamento
        tracked == IF lgc THEN RunCalls(bent, KeytrackCall, portamento, <<>>).v ELSE bent
        r == RunSamples(lgc, tracked, in, portamento, in.block_len, <<>>)
    IN [v |-> r.v, samples |-> r.samples, portamento |-> portamento]

PitchInputs ==
    [portamento : Portamentos, poly_mode : BOOLEAN, osc1_detune : OscDetunes,
     osc2_detune : {0}, unison_detune : UnisonDetunes, bend_state : Bends,
     block_len : 1..MaxBlockLen]

PitchInit ==
    /\ EnvOff /\ ProcOff /\ MaskOff /\ MidiOff /\ FiltOff /\ OscOff /\ SmoothOff
    /\ legacy \in BOOLEAN
    /\ voices = <<>>
    /\ time = 0
    /\ params = DefaultParams(FALSE)
    /\ env_chg = {}
    /\ last = NoOp("new")
    /\ glide = [pc |-> "new", v |-> PitchVoice_new, samples |-> <<>>, portamento |-> 0]

\* the pitch part of Voice::note_on
PitchNoteOn ==
    \E n \in PitchNotes, u \in PitchUnisons :
        glide' = [pc |-> "note_on",
                  v |-> [glide.v EXCEPT !.target_note = n, !.unison = u],
                  samples |-> <<>>, portamento |-> 0]

\* Voice::generate
PitchGenerate ==
    /\ glide.pc # "new"
    /\ \E in \in PitchInputs :
          LET r == pitch_generate(legacy, glide.v, in)
          IN glide' = [pc |-> "generated", v |-> r.v, samples |-> r.samples,
                       portamento |-> r.portamento]

PitchNext ==
    \/ /\ \/ PitchNoteOn
          \/ PitchGenerate
       /\ UNCHANGED <<envVars, synthVars, procVars, maskVars, midi, filt, osc, smooth>>

SpecPitch == PitchInit /\ [][PitchNext]_vars

----------------------------------------------------------------------------
(* SpecSmooth: one smoothed parameter read by the playing voices of a block *)

\* Smoothed::state and Smoothed::target are in units of 1 / SMOOTH_ONE
SMOOTH_ONE == 100

\* FILTER_FACTOR is 1 / FILTER_FACTOR_INV
FILTER_FACTOR_INV == 10

SmoothTargets == {0, 50, SMOOTH_ONE}

Smoothed_new == [state |-> 0, target |-> 0]

\* Smoothed::set
Smoothed_set(s, value) == [s EXCEPT !.target = value]

\* the host sets a parameter of lib.rs, which is built without a smoothing
\* style: the new value is the parameter's value at once
Smoother_set(s, value) == [state |-> value, target |-> value]

\* Smoothed::get: every call moves the state a tenth of the way to the target
Smoothed_get(s) ==
    LET state == s.state + RoundDiv(s.target - s.state, FILTER_FACTOR_INV)
    IN [s |-> [s EXCEPT !.state = state], value |-> state]

\* next_block on a parameter without a smoothing style fills the scratch
\* array with the plain value
Smoother_next_block(s, block_len) ==
    [s |-> s, values |-> [i \in 1..block_len |-> s.state]]

\* the per-sample loop of the legacy Voice::generate: one get per sample
RECURSIVE GetSamples(_, _, _)
GetSamples(s, n, values) ==
    IF n = 0 THEN [s |-> s, values |-> values]
    ELSE LET r == Smoothed_get(s)
         IN GetSamples(r.s, n - 1, Append(values, r.value))

\* the values one voice reads while it renders block_len samples
voice_read(lgc, s, block_len) ==
    IF lgc THEN GetSamples(s, block_len, <<>>)
    ELSE Smoother_next_block(s, block_len)

\* the loop over the playing voices: each voice's generate reads the parameter
RECURSIVE ReadVoices(_, _, _, _, _)
ReadVoices(lgc, s, block_len, n, reads) ==
    IF n = 0 THEN [s |-> s, reads |-> reads]
    ELSE LET r == voice_read(lgc, s, block_len)
         IN ReadVoices(lgc, r.s, block_len, n - 1, Append(reads, r.values))

SmoothInit ==
    /\ EnvOff /\ ProcOff /\ MaskOff /\ MidiOff /\ FiltOff /\ OscOff /\ GlideOff
    /\ legacy \in BOOLEAN
    /\ voices = <<>>
    /\ time = 0
    /\ params = DefaultParams(FALSE)
    /\ env_chg = {}
    /\ last = NoOp("new")
    /\ smooth = [pc |-> "new", s |-> Smoothed_new, before |-> Smoothed_new,
                 block_len |-> 0, reads |-> <<>>]

\* a parameter change between two blocks
SmoothSet ==
    \E value \in SmoothTargets :
        smooth' = [pc |-> "set",
                   s |-> IF legacy THEN Smoothed_set(smooth.s, value)
                         ELSE Smoother_set(smooth.s, value),
                   before |-> smooth.s, block_len |-> 0, reads |-> <<>>]

\* one sub-block rendered for the playing voices
SmoothRender ==
    \E playing \in 0..NumVoices, block_len \in 1..MaxBlockLen :
        LET r == ReadVoices(legacy, smooth.s, block_len, playing, <<>>)
        IN smooth' = [pc |-> "rendered", s |-> r.s, before |-> smooth.s,
                      block_len |-> block_len, reads |-> r.reads]

SmoothNext ==
    \/ /\ \/ SmoothSet
          \/ SmoothRender
       /\ UNCHANGED <<envVars, synthVars, procVars, maskVars, midi, filt, osc, glide>>

SpecSmooth == SmoothInit /\ [][SmoothNext]_vars

----------------------------------------------------------------------------
(* SpecRelease: the amplitude envelope of one voice, rendered sample by sample *)

RelInit ==
    /\ env = AdsrEnvelope_new
    /\ eop = "new"
    /\ egates = 0
    /\ legacy = FALSE
    /\ voices = <<>>
    /\ time = 0
    /\ params = DefaultParams(FALSE)
    /\ env_chg = {}
    /\ last = NoOp("new")
    /\ ProcOff /\ MaskOff /\ MidiOff /\ FiltOff /\ OscOff /\ GlideOff /\ SmoothOff

\* Voice::note_on on the voice
RelNoteOn ==
    /\ egates < MaxGateOns
    /\ env' = gate_on(env)
    /\ eop' = "note_on"
    /\ egates' = egates + 1
    /\ UNCHANGED synthVars

\* Voice::note_off on the voice
RelNoteOff ==
    /\ env' = gate_off(env)
    /\ eop' = "note_off"
    /\ UNCHANGED <<egates, synthVars>>

\* one sample of Voice::generate, which Synth::process calls for a playing
\* voice only: when the voice's bit of env_change is set the coefficients are
\* recomputed, from a sustain level and a release time the control path may
\* have changed, and then the envelope steps
RelGenerate ==
    /\ ~is_idle(env)
    /\ \E recompute \in BOOLEAN, sr \in SampleRates, s \in SustainLevels, r \in Rates :
          env' = process(IF recompute
                         THEN set_envelope_parameters(env, sr, params.amp.attack_rate,
                                  params.amp.decay_rate, s, r)
                         ELSE env)
    /\ eop' = "generate"
    /\ UNCHANGED <<egates, synthVars>>

RelNext ==
    \/ /\ \/ RelNoteOn
          \/ RelNoteOff
          \/ RelGenerate
       /\ UNCHANGED <<procVars, maskVars, midi, filt, osc, glide, smooth>>

\* process keeps rendering samples: a playing voice is rendered again
RelFairness ==
    WF_vars(RelGenerate /\ UNCHANGED <<procVars, maskVars, midi, filt, osc, glide, smooth>>)

SpecRelease == RelInit /\ [][RelNext]_vars /\ RelFairness

----------------------------------------------------------------------------
(* SpecVoice: one voice of the plugin of lib.rs, with the release time of *)
(* its filter envelope written by the control path                         *)

\* the voice looked at: its bit of the mask is bit 0
TheVoice == 0

VoiceInit ==
    /\ legacy = FALSE
    /\ voices = [i \in {TheVoice} |-> Voice_new(i, 1, FALSE)]
    /\ time = 0
    /\ params = DefaultParams(FALSE)
    /\ env_chg = {TheVoice}
    /\ last = NoOp("new")
    /\ EnvOff /\ ProcOff /\ MaskOff /\ MidiOff /\ FiltOff /\ OscOff /\ GlideOff /\ SmoothOff

\* Plugin::initialize builds the voice again
VoiceInitialize ==
    /\ \E sr \in SampleRates :
          voices' = [voices EXCEPT ![TheVoice] = Voice_new(TheVoice, sr, FALSE)]
    /\ last' = NoOp("other")
    /\ UNCHANGED <<legacy, time, params, env_chg>>

\* Synth::note_on assigns the voice
VoiceNoteOn ==
    /\ \E n \in Notes :
          /\ voices' = [voices EXCEPT ![TheVoice] =
                           voice_note_on(@, n, VelocityOf(n), time, params.unison_voices)]
          /\ last' = [NoOp("note_on") EXCEPT !.note = n, !.velocity = VelocityOf(n)]
    /\ UNCHANGED <<legacy, time, params, env_chg>>

\* Synth::note_off releases the voice when its note matches
VoiceNoteOff ==
    /\ voices' = [voices EXCEPT ![TheVoice] = voice_note_off(@)]
    /\ last' = [NoOp("note_off") EXCEPT !.note = voices[TheVoice].target_note]
    /\ UNCHANGED <<legacy, time, params, env_chg>>

\* one sub-block of Plugin::process: the voice generates only while it plays
VoiceGenerate ==
    /\ is_playing(voices[TheVoice])
    /\ \E block_len \in 1..MaxBlockLen :
          voices' = [voices EXCEPT ![TheVoice] =
                        voice_generate(@, params, TheVoice \in env_chg, block_len)]
    /\ env_chg' = env_chg \ {TheVoice}
    /\ last' = NoOp("other")
    /\ UNCHANGED <<legacy, time, params>>

\* the release time of the filter envelope is set (env_time_param, at least
\* 0.001 s): the value is stored and the callback sets every bit of the mask
WriteFilterRelease ==
    /\ \E r \in 1..MaxRate : params' = [params EXCEPT !.filter.release_rate = r]
    /\ env_chg' = {TheVoice}
    /\ last' = NoOp("other")
    /\ UNCHANGED <<legacy, voices, time>>

VoiceNext ==
    \/ /\ \/ VoiceInitialize
          \/ VoiceNoteOn
          \/ VoiceNoteOff
          \/ VoiceGenerate
          \/ WriteFilterRelease
       /\ UNCHANGED <<envVars, procVars, maskVars, midi, filt, osc, glide, smooth>>

SpecVoice == VoiceInit /\ [][VoiceNext]_vars

----------------------------------------------------------------------------
(* Claims on Synth::note_on and Synth::note_off, under Spec *)

IsPolyMode == params.poly_mode = "Poly"
IsMonoMode == params.poly_mode = "Mono"

\* voice k of the pool `after` holds the note: note, velocity and start time
\* are stored and both envelopes are gated on
Assigned(after, k, note, velocity, t) ==
    /\ after[k].target_note = note
    /\ after[k].velocity = velocity
    /\ after[k].start_time = t
    /\ after[k].amp_envelope.state = "Attacking"
    /\ after[k].filter_envelope.state = "Attacking"

OthersUnchanged(before, after, k) ==
    \A j \in VoiceIds \ {k} : after[j] = before[j]

IdleVoices(vs) == {i \in VoiceIds : ~is_playing(vs[i])}
DecayingVoices(vs) == {i \in VoiceIds : is_decaying(vs[i].amp_envelope)}

\* C1: in polyphonic mode, when some voice is Idle, note_on assigns the note to
\* the Idle voice of lowest index and leaves every other voice unchanged
C1_FirstIdleVoice ==
    [][ (last'.op = "note_on" /\ IsPolyMode /\ IdleVoices(voices) # {})
        => \E k \in IdleVoices(voices) :
              /\ \A j \in IdleVoices(voices) : k <= j
              /\ Assigned(voices', k, last'.note, last'.velocity, time)
              /\ OthersUnchanged(voices, voices', k) ]_vars

\* note_on(60) on an all-idle pool went to voice 0, and note_on(64), with no
\* render in between, has just gone to voice 1
C1_Witness ==
    /\ last.op = "note_on" /\ last.note = 64 /\ last.before.idle /\ IsPolyMode
    /\ voices[0].target_note = 60 /\ voices[0].velocity = 127
    /\ voices[0].amp_envelope.state = "Attacking" /\ voices[0].amp_envelope.level = 0
    /\ voices[1].target_note = 64 /\ voices[1].velocity = 100
    /\ voices[1].amp_envelope.state = "Attacking" /\ voices[1].amp_envelope.level = 0
    /\ \A j \in VoiceIds \ {0, 1} : ~is_playing(voices[j])

\* C2: in polyphonic mode, when no voice is Idle and some voice is Decaying,
\* note_on steals a Decaying voice of smallest start time among the Decaying
\* ones, whatever the start times of the other voices, and modifies no other voice
C2_OldestDecayingVoice ==
    [][ (last'.op = "note_on" /\ IsPolyMode /\ IdleVoices(voices) = {}
           /\ DecayingVoices(voices) # {})
        => \E k \in DecayingVoices(voices) :
              /\ \A j \in DecayingVoices(voices) : voices[k].start_time <= voices[j].start_time
              /\ Assigned(voices', k, last'.note, last'.velocity, time)
              /\ OthersUnchanged(voices, voices', k) ]_vars

\* a note_on found no Idle voice, a Decaying voice, and a voice that was not
\* Decaying with a smaller start time than every Decaying one
C2_Witness ==
    /\ last.op = "note_on" /\ IsPolyMode
    /\ ~last.before.idle /\ last.before.decaying /\ last.before.older

\* C3: in polyphonic mode, when no voice is Idle and none is Decaying, note_on
\* steals a voice of smallest start time among all and modifies no other voice
C3_OldestVoice ==
    [][ (last'.op = "note_on" /\ IsPolyMode /\ IdleVoices(voices) = {}
           /\ DecayingVoices(voices) = {})
        => \E k \in VoiceIds :
              /\ \A j \in VoiceIds : voices[k].start_time <= voices[j].start_time
              /\ Assigned(voices', k, last'.note, last'.velocity, time)
              /\ OthersUnchanged(voices, voices', k) ]_vars

\* a note_on found every voice playing, none Decaying, and a voice other than
\* voice 0 strictly older than the rest
C3_Witness ==
    /\ last.op = "note_on" /\ IsPolyMode
    /\ ~last.before.idle /\ ~last.before.decaying
    /\ \E k \in VoiceIds \ {0} :
          /\ last.before.oldest = {k}
          /\ voices[k].target_note = last.note /\ voices[k].start_time = time

\* C4: in monophonic mode every note_on retriggers voice 0 and modifies no
\* other voice
C4_MonoRetriggersVoice0 ==
    [][ (last'.op = "note_on" /\ IsMonoMode)
        => /\ Assigned(voices', 0, last'.note, last'.velocity, time)
           /\ OthersUnchanged(voices, voices', 0) ]_vars

\* an envelope after gate_off: Releasing if it was Attacking, Decaying or
\* Sustaining, and otherwise as it was
GatedOff(e, f) ==
    /\ f.state = IF e.state \in {"Attacking", "Decaying", "Sustaining"}
                 THEN "Releasing" ELSE e.state
    /\ f = [e EXCEPT !.state = f.state]

\* C5: note_off(n) gates off both envelopes of every voice whose target note is
\* n and leaves every voice whose target note differs from n unchanged
C5_NoteOffMatchingVoices ==
    [][ last'.op = "note_off"
        => \A i \in VoiceIds :
              IF voices[i].target_note = last'.note
              THEN /\ GatedOff(voices[i].amp_envelope, voices'[i].amp_envelope)
                   /\ GatedOff(voices[i].filter_envelope, voices'[i].filter_envelope)
                   /\ voices'[i] = [voices[i] EXCEPT
                                       !.amp_envelope = voices'[i].amp_envelope,
                                       !.filter_envelope = voices'[i].filter_envelope]
              ELSE voices'[i] = voices[i] ]_vars

\* a note_off released a voice of its note while a voice that holds another
\* note plays on, not Releasing
C5_Witness ==
    /\ last.op = "note_off"
    /\ \E i \in VoiceIds :
          /\ voices[i].target_note = last.note
          /\ voices[i].amp_envelope.state = "Releasing"
          /\ voices[i].filter_envelope.state = "Releasing"
    /\ \E j \in VoiceIds :
          /\ voices[j].target_note # last.note
          /\ is_playing(voices[j])
          /\ voices[j].amp_envelope.state # "Releasing"

\* C11: in every reachable state a voice is playing exactly when its amplitude
\* envelope is not Idle, and an Idle amplitude envelope has level 0 and no
\* gate-on timestamp; a voice of the pool goes from playing to Idle only by the
\* Releasing-to-Idle step of process at level 0 (initialize does not return a
\* voice to Idle: it replaces the pool by newly constructed voices)
C11_IdleOnlyByRelease ==
    /\ [](\A i \in DOMAIN voices :
             /\ is_playing(voices[i]) <=> voices[i].amp_envelope.state # "Idle"
             /\ voices[i].amp_envelope.state = "Idle"
                   => /\ voices[i].amp_envelope.level = 0
                      /\ voices[i].amp_envelope.start_time = FALSE)
    /\ [][ \A i \in DOMAIN voices :
              (is_playing(voices[i]) /\ ~is_playing(voices'[i]))
              => \/ /\ voices[i].amp_envelope.state = "Releasing"
                    /\ last'.op = "other"
                    /\ voices'[i].amp_envelope
                          = [voices[i].amp_envelope EXCEPT
                                !.params = voices'[i].amp_envelope.params,
                                !.attack_coeff = voices'[i].amp_envelope.attack_coeff,
                                !.attack_base = voices'[i].amp_envelope.attack_base,
                                !.decay_coeff = voices'[i].amp_envelope.decay_coeff,
                                !.decay_base = voices'[i].amp_envelope.decay_base,
                                !.release_coeff = voices'[i].amp_envelope.release_coeff,
                                !.release_base = voices'[i].amp_envelope.release_base,
                                !.state = "Idle", !.level = 0, !.start_time = FALSE]
                 \/ \A j \in DOMAIN voices :
                       voices'[j] = Voice_new(j, voices'[j].sample_rate, legacy) ]_vars

\* a voice that was given a note has released to level 0 and is Idle again,
\* while another voice still plays
C11_Witness ==
    /\ \E i \in DOMAIN voices :
          /\ voices[i].target_note # 0
          /\ ~is_playing(voices[i])
          /\ voices[i].amp_envelope.level = 0
    /\ \E j \in DOMAIN voices : is_playing(voices[j])

----------------------------------------------------------------------------
(* Claims on Plugin::process, under SpecProc *)

\* the events were delivered in non-decreasing timing order
InTimingOrder(evs) ==
    \A i, j \in DOMAIN evs : i < j => evs[i].timing <= evs[j].timing

\* C12: when the events are delivered in non-decreasing timing order, the
\* events applied so far are the first ones delivered, in delivery order, each
\* applied when exactly the samples before its timing had been rendered; and
\* when the call ends every event with timing < num_samples has been applied
C12_EventsAtTheirSample ==
    (call.pc # "off" /\ InTimingOrder(hist.delivered))
    => /\ Len(hist.applied) <= Len(hist.delivered)
       /\ \A k \in DOMAIN hist.applied :
             /\ hist.applied[k].timing = hist.delivered[k].timing
             /\ hist.applied[k].kind = hist.delivered[k].kind
             /\ hist.applied[k].done = 0..(hist.applied[k].timing - 1)
       /\ call.pc = "done"
             => Len(hist.applied)
                   = Cardinality({k \in DOMAIN hist.delivered :
                                     hist.delivered[k].timing < call.num_samples})

\* a call has ended that applied a note_on at sample 1, which cut the first
\* block short, and then a note_off at sample 2
C12_Witness ==
    /\ call.pc = "done"
    /\ InTimingOrder(hist.delivered)
    /\ Len(hist.applied) = 2
    /\ hist.applied[1].kind = "note_on" /\ hist.applied[1].timing = 1
    /\ hist.applied[2].kind = "note_off" /\ hist.applied[2].timing = 2
    /\ hist.blocks[1] = <<0, 1>>

\* the sub-blocks rendered so far follow one another from sample 0, each
\* non-empty, at most MAX_BLOCK_SIZE long and within the buffer
BlocksInOrder(blocks, n) ==
    /\ \A k \in DOMAIN blocks :
          /\ blocks[k][1] < blocks[k][2]
          /\ blocks[k][2] - blocks[k][1] <= MAX_BLOCK_SIZE
          /\ blocks[k][2] <= n
          /\ blocks[k][1] = IF k = 1 THEN 0 ELSE blocks[k - 1][2]
    /\ call.block_start = IF blocks = <<>> THEN 0 ELSE blocks[Len(blocks)][2]

\* what is left of a call: the samples to render, then the events to fetch,
\* then the steps of the current turn of the while loop
Variant(c) ==
    << IF c.pc = "start" THEN 1 ELSE 0,
       c.num_samples - c.block_start,
       Len(c.queue) + (IF c.next_event = NoEvent THEN 0 ELSE 1),
       CASE c.pc = "while" -> 3 [] c.pc = "events" -> 2 [] c.pc = "render" -> 1
         [] OTHER -> 0 >>

\* a is below b in the lexicographic order of tuples of naturals
LexLess(a, b) ==
    \E k \in DOMAIN a :
        /\ a[k] < b[k]
        /\ \A j \in 1..(k - 1) : a[j] = b[j]

\* C18: for every num_samples and every event stream, in timing order or not,
\* the sub-blocks rendered are consecutive from 0, non-empty, and at most
\* MAX_BLOCK_SIZE long, which is the length of the scratch arrays of
\* Voice::generate; the block handed to the voices is such a block; when the
\* call has ended the blocks end at num_samples; and the call ends: one arm
\* of the 'events loop applies to every pending event, the other steps wait
\* for nothing, and every step lowers a variant that is a tuple of naturals
C18_BlocksPartition ==
    /\ [](/\ BlocksInOrder(hist.blocks, call.num_samples)
          /\ call.pc = "render"
                => /\ call.block_start < call.block_end
                   /\ call.block_end - call.block_start <= MAX_BLOCK_SIZE
                   /\ call.block_end <= call.num_samples
          /\ call.pc = "done"
                => /\ call.block_start = call.num_samples
                   /\ hist.done = 0..(call.num_samples - 1)
          /\ call.pc \in {"start", "while", "events", "render", "done"}
          /\ call.pc = "events"
                => \/ /\ call.next_event # NoEvent
                      /\ call.next_event.timing <= call.block_start
                   \/ ENABLED ProcEventCut
                   \/ ENABLED ProcEventNone
          /\ call.pc # "off" => \A k \in 1..4 : Variant(call)[k] >= 0)
    /\ [][ call.pc # "off" => LexLess(Variant(call'), Variant(call)) ]_vars

\* a call for 3 samples has ended after a block cut short at sample 1 by an
\* event and a block of MAX_BLOCK_SIZE samples
C18_Witness ==
    /\ call.pc = "done"
    /\ call.num_samples = 3
    /\ hist.blocks = << <<0, 1>>, <<1, 1 + MAX_BLOCK_SIZE>> >>
    /\ Len(hist.applied) = 1

\* the sum of the levels of a set of contributions
RECURSIVE SumLevels(_)
SumLevels(S) ==
    IF S = {} THEN 0
    ELSE LET c == CHOOSE x \in S : TRUE IN c.level + SumLevels(S \ {c})

\* C15: a step changes the output buffer only inside the sub-block being
\* rendered; every sample rendered so far equals the sum, from zero, of the
\* contributions of the voices that played in its sub-block, on both channels,
\* and every other sample is as the caller left it
C15_OutputAccumulates ==
    /\ [](call.pc # "off"
          => \A idx \in DOMAIN call.output[0] :
                LET mix == SumLevels({c \in hist.contrib : c.idx = idx})
                IN IF idx \in hist.done
                   THEN /\ call.output[0][idx] = 0 + FilteredL * mix
                        /\ call.output[1][idx] = 0 + FilteredR * mix
                   ELSE /\ call.output[0][idx] = hist.garbage
                        /\ call.output[1][idx] = hist.garbage)
    /\ [][ call.pc # "off"
           => \A ch \in {0, 1} : \A idx \in DOMAIN call.output[ch] :
                 call'.output[ch][idx] # call.output[ch][idx]
                 => /\ call.pc = "render"
                    /\ call.block_start <= idx /\ idx < call.block_end ]_vars

\* a call has ended in which two voices added non-zero contributions to the
\* same sample of a buffer that did not come zeroed
C15_Witness ==
    /\ call.pc = "done"
    /\ hist.garbage # 0
    /\ \E c1, c2 \in hist.contrib :
          /\ c1.idx = c2.idx /\ c1.voice # c2.voice
          /\ c1.level > 0 /\ c2.level > 0
          /\ call.output[0][c1.idx] >= FilteredL * (c1.level + c2.level)

----------------------------------------------------------------------------
(* Claim on the unison count, under SpecUnison *)

\* C16: the unison count of every voice is within 1 .. MAX_UNISON, and it
\* changes only in a note_on, which sets it to the value of the parameter for
\* the voice it triggers
C16_UnisonOnlyAtNoteOn ==
    /\ [](\A i \in DOMAIN voices : voices[i].unison \in 1..MAX_UNISON)
    /\ [][ \A i \in DOMAIN voices :
              voices'[i].unison # voices[i].unison
              => /\ last'.op = "note_on"
                 /\ voices'[i].target_note = last'.note
                 /\ voices'[i].amp_envelope.state = "Attacking"
                 /\ voices'[i].unison = params.unison_voices ]_vars

\* a voice triggered with one unison count has gone on rendering with it after
\* the parameter was moved to another value
C16_Witness ==
    /\ last.op = "other"
    /\ \E i \in DOMAIN voices :
          /\ is_playing(voices[i])
          /\ voices[i].amp_envelope.level > 0
          /\ voices[i].unison = MAX_UNISON
          /\ params.unison_voices = 2

----------------------------------------------------------------------------
(* Claims on the shared mask, under SpecMask *)

\* C13: when a generate call of a voice ends, the coefficients of the voice
\* come from values at least as new as every write that had completed when the
\* call made its test-and-clear
C13_NoWriteLost ==
    rt.pc = "end" => \A p \in ParamNames : rt.coef[rt.voice][p] >= rt.need[p]

\* C14: between two stores into the mask a voice recomputes its coefficients
\* at most once; generate recomputes exactly when its test-and-clear found the
\* bit of the voice set, the test-and-clear clears that bit only, and the
\* coefficients change in no other way
C14_RecomputeOncePerWrite ==
    /\ [](rt.pc # "off" => \A i \in VoiceIds : rt.recomputes[i] <= 1)
    /\ [][ /\ (rt.pc = "idle" /\ rt'.pc # "idle")
              => /\ rt'.bit <=> rt'.voice \in env_chg
                 /\ rt'.pc = "read" <=> rt'.bit
                 /\ env_chg' = env_chg \ {rt'.voice}
           /\ rt'.coef # rt.coef
              => /\ rt.pc = "read" /\ rt.bit
                 /\ \A i \in VoiceIds \ {rt.voice} : rt'.coef[i] = rt.coef[i] ]_vars

\* a generate call found the bit of its voice clear, after the voice
\* recomputed for the last write, while the bit of another voice is still set
C14_Witness ==
    /\ rt.pc = "end" /\ ~rt.bit
    /\ rt.recomputes[rt.voice] = 1
    /\ ctl.writes > 0
    /\ \E j \in VoiceIds \ {rt.voice} : j \in env_chg

----------------------------------------------------------------------------
(* Claim on midi_pitch_to_freq, under SpecMidi *)

\* C17: for every cent of the pitches 0 .. 127 the frequency returned by
\* midi_pitch_to_freq differs from 440 * 2^((pitch - 69) / 12) by less than
\* one per mille of the latter, and for pitch 69 it is 440.0
C17_PitchTableAccuracy ==
    midi.pc = "done"
    => /\ LET exact == exact_freq(midi.i, midi.c)
          IN f32_lt(f32_abs(f32_sub(midi.freq, exact)), f32_mul(F32_PER_MILLE, exact))
       /\ (midi.i = A4_PITCH /\ midi.c = 0) => midi.freq = A4_FREQ

\* the call for 60 semitones and 37 cents, between two entries of POW2, has
\* returned 267.27716, which is not the f32 of the exact form
C17_Witness ==
    /\ midi.pc = "done"
    /\ midi.i = 60 /\ midi.c = 37
    /\ midi.pitch = F32(15825633, -18)
    /\ midi.freq = F32(8758138, -15)
    /\ midi.freq # exact_freq(midi.i, midi.c)

----------------------------------------------------------------------------
(* Claim on the coefficient cache of the filter, under SpecFilt *)

----------------------------------------------------------------------------
(* Claim on the phase of the oscillator, under SpecOsc *)

\* C20: a generate call with 0 < frequency < sample rate that starts with the
\* phase in [0, 1) ends with the phase in [0, 1), for every waveform and every
\* pulse width
C20_PhaseInUnitInterval ==
    [][ (/\ osc'.pc = "generated"
         /\ 0 <= osc.phase /\ osc.phase < PHASE_ONE
         /\ 0 < osc'.freq /\ osc'.freq < OscSampleRate)
        => (0 <= osc'.phase /\ osc'.phase < PHASE_ONE) ]_vars

----------------------------------------------------------------------------
(* Claims on the pitch of a voice, under SpecPitch *)

\* C21: for every unison index of osc1 and osc2, the semitone passed to the
\* pitch-to-frequency conversion is the glided note plus the bend plus the
\* detune of the carrier plus the unison offset times the unison detune
C21_BendOnce ==
    glide.pc = "generated"
    => \A s \in DOMAIN glide.samples :
          \A k \in DOMAIN glide.samples[s].calls :
             LET c == glide.samples[s].calls[k]
             IN c.carrier # "keytrack"
                => c.semitone = c.note + glide.v.bend + c.detune + c.offset

\* the glided note after one one-pole step
OnePoleStep(note, target, portamento) ==
    note + RoundDiv(target * SEMITONE - note, portamento)

\* C22: with portamento > 0 the glided note after a sample is the note before
\* it advanced by one one-pole step, whatever the unison count; with
\* portamento <= 0, as in polyphonic mode, it is the target note
C22_OneGlideStepPerSample ==
    glide.pc = "generated"
    => \A s \in DOMAIN glide.samples :
          LET smp == glide.samples[s]
          IN IF glide.portamento > 0
             THEN smp.after = OnePoleStep(smp.before, glide.v.target_note, glide.portamento)
             ELSE smp.after = glide.v.target_note * SEMITONE

----------------------------------------------------------------------------
(* Claim on the smoothed parameters, under SpecSmooth *)

\* the parameter after one sub-block of its own, read by nobody else
AdvanceOnce(lgc, s, block_len) == voice_read(lgc, s, block_len).s.state

\* C23: in a rendered sub-block every playing voice reads the same sequence of
\* values of a smoothed parameter, and the parameter has advanced by the
\* sub-block length once, however many voices are playing
C23_SameSmoothedValues ==
    smooth.pc = "rendered"
    => /\ \A i, j \in DOMAIN smooth.reads : smooth.reads[i] = smooth.reads[j]
       /\ smooth.reads # <<>>
          => smooth.s.state = AdvanceOnce(legacy, smooth.before, smooth.block_len)

----------------------------------------------------------------------------
(* Voice stealing on equal start times: C25, checked under Spec *)

\* the lowest index among the voices of c with the smallest start time
FirstOldest(vs, c) ==
    CHOOSE i \in c : \A j \in c :
        \/ vs[i].start_time < vs[j].start_time
        \/ vs[i].start_time = vs[j].start_time /\ i <= j

\* C25: when no voice is Idle, a polyphonic note_on steals the voice with the
\* smallest start time among the Decaying voices if there is one and among
\* all voices otherwise, and of several voices sharing that start time the
\* one with the lowest index; no other voice changes.
C25_StealLowestIndexOnTie ==
    [][ (/\ last'.op = "note_on"
         /\ ~mono(legacy, params)
         /\ \A i \in VoiceIds : is_playing(voices[i]))
        => LET dec == {i \in VoiceIds : is_decaying(voices[i].amp_envelope)}
               stolen == FirstOldest(voices, IF dec # {} THEN dec ELSE VoiceIds)
           IN /\ voices'[stolen] = voice_note_on(voices[stolen], last'.note,
                                       last'.velocity, time, params.unison_voices)
              /\ \A i \in VoiceIds \ {stolen} : voices'[i] = voices[i] ]_vars

\* C25 witness: a note_on has stolen a voice when several voices shared the
\* smallest start time and none was Idle
C25_Witness ==
    /\ last.op = "note_on"
    /\ ~last.before.idle
    /\ Cardinality(last.before.oldest) >= 2
    /\ ~mono(legacy, params)

----------------------------------------------------------------------------
(* Retriggered and stolen voices: C26, checked under Spec *)

\* C26: note_on changes no envelope level: the voice it assigns, sounding or
\* not, has both envelopes Attacking at the level they had before the call,
\* and the voices it does not assign keep their envelopes.
C26_GateOnKeepsLevel ==
    [][ last'.op = "note_on" =>
          \A i \in VoiceIds :
             /\ voices'[i].amp_envelope.level = voices[i].amp_envelope.level
             /\ voices'[i].filter_envelope.level = voices[i].filter_envelope.level
             /\ \/ /\ voices'[i].amp_envelope = gate_on(voices[i].amp_envelope)
                   /\ voices'[i].filter_envelope = gate_on(voices[i].filter_envelope)
                   /\ voices'[i].amp_envelope.state = "Attacking"
                   /\ voices'[i].filter_envelope.state = "Attacking"
                \/ voices'[i] = voices[i] ]_vars

\* C26 witness: note_on has taken a sounding voice when none was Idle, and
\* the voice is Attacking at a level above 0
C26_Witness ==
    /\ last.op = "note_on"
    /\ ~last.before.idle
    /\ \E i \in VoiceIds :
          /\ voices[i].target_note = last.note
          /\ voices[i].start_time = time
          /\ voices[i].amp_envelope.state = "Attacking"
          /\ voices[i].amp_envelope.level > 0
          /\ voices[i].filter_envelope.state = "Attacking"
          /\ voices[i].filter_envelope.level > 0

----------------------------------------------------------------------------
(* Envelope coefficients of rebuilt voices: C28, checked under Spec *)

\* the coefficients of envelope e are the ones set_envelope_parameters
\* computes from the parameters adsr at the voice's sample rate
ComputedFrom(e, sample_rate, adsr) ==
    e = set_envelope_parameters(e, sample_rate, adsr.attack_rate, adsr.decay_rate,
                                adsr.sustain_level, adsr.release_rate)

\* C28: every voice that a sub-block has rendered has stepped its envelopes
\* with coefficients computed from the current parameters, never with the
\* all-zero coefficients of Voice::new, in whatever order process and
\* initialize are called.
C28_CoefficientsBeforeFirstStep ==
    [][ Generate =>
          \A i \in VoiceIds :
             is_playing(voices[i]) =>
                /\ ComputedFrom(voices'[i].amp_envelope, voices'[i].sample_rate, params.amp)
                /\ ComputedFrom(voices'[i].filter_envelope, voices'[i].sample_rate,
                                params.filter) ]_vars

----------------------------------------------------------------------------
(* Both envelopes of an idle voice: C30, checked under SpecVoice *)

\* C30: a voice that is not playing has its filter envelope Idle at level 0,
\* as its amplitude envelope is.
C30_IdleVoiceHasIdleFilterEnvelope ==
    \A i \in DOMAIN voices :
       ~is_playing(voices[i])
       => /\ voices[i].filter_envelope.state = "Idle"
          /\ voices[i].filter_envelope.level = 0

\* C30 as the code has it: a voice that is not playing has its filter
\* envelope Idle at level 0 or Releasing at the level it was left with; it is
\* never Attacking, Decaying or Sustaining.
C30_IdleVoiceFilterIdleOrReleasing ==
    \A i \in DOMAIN voices :
       ~is_playing(voices[i])
       => \/ /\ voices[i].filter_envelope.state = "Idle"
             /\ voices[i].filter_envelope.level = 0
          \/ /\ voices[i].filter_envelope.state = "Releasing"
             /\ 0 <= voices[i].filter_envelope.level
             /\ voices[i].filter_envelope.level <= SCALE

\* C30 witness: a voice has stopped playing while its filter envelope was
\* still Releasing above level 0
C30_Witness ==
    \E i \in DOMAIN voices :
       /\ ~is_playing(voices[i])
       /\ voices[i].filter_envelope.state = "Releasing"
       /\ voices[i].filter_envelope.level > 0

----------------------------------------------------------------------------
(* SpecEnv: every sequence of calls on one envelope *)

\* one envelope on its own: there is no voice pool
EnvInit ==
    /\ env = AdsrEnvelope_new
    /\ eop = "new"
    /\ egates = 0
    /\ legacy = FALSE
    /\ voices = <<>>
    /\ time = 0
    /\ params = DefaultParams(FALSE)
    /\ env_chg = {}
    /\ last = NoOp("new")
    /\ ProcOff /\ MaskOff /\ MidiOff /\ FiltOff /\ OscOff /\ GlideOff /\ SmoothOff

EnvGateOn ==
    /\ UNCHANGED synthVars
    /\ egates < MaxGateOns
    /\ env' = gate_on(env)
    /\ eop' = "gate_on"
    /\ egates' = egates + 1

EnvGateOff ==
    /\ UNCHANGED synthVars
    /\ env' = gate_off(env)
    /\ eop' = "gate_off"
    /\ UNCHANGED egates

EnvProcess ==
    /\ UNCHANGED synthVars
    /\ env' = process(env)
    /\ eop' = "process"
    /\ UNCHANGED egates

\* set_envelope_parameters called with one parameter changed (a caller that
\* changes several makes the same calls with no process in between)
EnvSetParameters ==
    \E sr \in SampleRates :
        LET p == env.params IN
        /\ \/ \E a \in Rates : env' = set_envelope_parameters(env, sr, a, p.decay_rate,
                                        p.sustain_level, p.release_rate)
           \/ \E d \in Rates : env' = set_envelope_parameters(env, sr, p.attack_rate, d,
                                        p.sustain_level, p.release_rate)
           \/ \E s \in SustainLevels : env' = set_envelope_parameters(env, sr, p.attack_rate,
                                        p.decay_rate, s, p.release_rate)
           \/ \E r \in Rates : env' = set_envelope_parameters(env, sr, p.attack_rate,
                                        p.decay_rate, p.sustain_level, r)
        /\ eop' = "set_envelope_parameters"
        /\ UNCHANGED egates
        /\ UNCHANGED synthVars

EnvNext ==
    \/ /\ \/ EnvGateOn
          \/ EnvGateOff
          \/ EnvProcess
          \/ EnvSetParameters
       /\ UNCHANGED <<procVars, maskVars, midi, filt, osc, glide, smooth>>

SpecEnv == EnvInit /\ [][EnvNext]_vars

----------------------------------------------------------------------------
(* Envelope state machine: C6 .. C10, checked under SpecEnv *)

\* the transitions section 4.4 of the specification lists, with the call that
\* takes each
ListedTransition(from, to, op) ==
    \/ from = "Idle" /\ to = "Attacking" /\ op = "gate_on"
    \/ from = "Attacking" /\ to = "Decaying" /\ op = "process"
    \/ from = "Decaying" /\ to = "Sustaining" /\ op = "process"
    \/ from \in {"Attacking", "Decaying", "Sustaining"} /\ to = "Releasing" /\ op = "gate_off"
    \/ from = "Releasing" /\ to = "Idle" /\ op = "process"

\* C6 as stated: every change of an envelope's state is one of the listed
\* transitions (Idle to Attacking by gate_on; Attacking to Decaying; Decaying to
\* Sustaining; Attacking, Decaying or Sustaining to Releasing by gate_off;
\* Releasing to Idle) and no other state change occurs.
C6_OnlyListedTransitions ==
    [][env'.state # env.state => ListedTransition(env.state, env'.state, eop')]_vars

\* C6 amended: every change of an envelope's state is one of the listed
\* transitions or a retrigger, gate_on moving a Decaying, Sustaining or Releasing
\* envelope to Attacking.
C6_ListedOrRetrigger ==
    [][env'.state # env.state =>
          \/ ListedTransition(env.state, env'.state, eop')
          \/ /\ eop' = "gate_on"
             /\ env.state \in {"Decaying", "Sustaining", "Releasing"}
             /\ env'.state = "Attacking"]_vars

\* C6 witness: gate_on has just retriggered a sounding envelope (its level is
\* above 0, which an Idle envelope's never is)
C6_Witness == eop = "gate_on" /\ env.state = "Attacking" /\ env.level > 0

\* C7: a process call on an Attacking envelope never lowers the level; it moves
\* to Decaying with level exactly 1.0 when attack_base + level * attack_coeff
\* is >= 1, and stays Attacking otherwise.
C7_AttackMonotoneAndSnap ==
    [][eop' = "process" /\ env.state = "Attacking" =>
          LET computed == env.attack_base + Mul(env.level, env.attack_coeff) IN
          /\ env'.level >= env.level
          /\ computed >= SCALE => env'.state = "Decaying" /\ env'.level = SCALE
          /\ computed < SCALE => env'.state = "Attacking" /\ env'.level = computed]_vars

\* C7 witness: process has raised an Attacking envelope's level without
\* completing the attack
C7_Witness ==
    eop = "process" /\ env.state = "Attacking" /\ env.level > 0 /\ env.level < SCALE

\* what C8 says of a process call on a Decaying envelope apart from the sign of
\* the level change, and of a call on a Sustaining one
DecayStep ==
    /\ eop' = "process" /\ env.state = "Decaying" =>
          LET computed == env.decay_base + Mul(env.level, env.decay_coeff) IN
          /\ env'.level >= env.params.sustain_level
          /\ computed <= env.params.sustain_level =>
                env'.state = "Sustaining" /\ env'.level = env.params.sustain_level
          /\ computed > env.params.sustain_level =>
                env'.state = "Decaying" /\ env'.level = computed
    /\ eop' = "process" /\ env.state = "Sustaining" =>
          env'.state = "Sustaining" /\ env'.level = env.level

\* C8 as stated: a process call on a Decaying envelope never raises the level
\* and never leaves it below the sustain level; it moves to Sustaining with
\* level exactly sustain when the computed level is <= sustain; in Sustaining
\* process changes neither level nor state.
C8_DecayMonotoneAndSnap ==
    [][ /\ DecayStep
        /\ eop' = "process" /\ env.state = "Decaying" => env'.level <= env.level ]_vars

\* C8 amended: as C8, the level being non-increasing only in the calls that
\* find the level at or above the sustain level in force.
C8_DecayMonotoneAboveSustain ==
    [][ /\ DecayStep
        /\ /\ eop' = "process" /\ env.state = "Decaying"
           /\ env.level >= env.params.sustain_level
           => env'.level <= env.level ]_vars

\* C8 witness: process has lowered a Decaying envelope's level without
\* reaching the sustain level
C8_Witness ==
    /\ eop = "process" /\ env.state = "Decaying"
    /\ env.level < SCALE /\ env.level > env.params.sustain_level

\* C9: gate_off never changes the level; it moves an Attacking, Decaying or
\* Sustaining envelope to Releasing and changes nothing of an Idle or
\* Releasing one.
C9_GateOff ==
    [][eop' = "gate_off" =>
          /\ env'.level = env.level
          /\ env.state \in {"Attacking", "Decaying", "Sustaining"} => env'.state = "Releasing"
          /\ env.state \in {"Idle", "Releasing"} => env' = env]_vars

\* C9 witness: gate_off has moved a sounding envelope to Releasing
C9_Witness == eop = "gate_off" /\ env.state = "Releasing" /\ env.level > 0

\* C10: a process call on a Releasing envelope never raises the level; it
\* returns to Idle with level exactly 0 and no gate-on timestamp when
\* release_base + level * release_coeff is <= 0 and stays Releasing otherwise;
\* a process call on an Idle envelope leaves it Idle with level 0.
C10_ReleaseMonotoneAndIdle ==
    [][ /\ eop' = "process" /\ env.state = "Releasing" =>
              LET computed == env.release_base + Mul(env.level, env.release_coeff) IN
              /\ env'.level <= env.level
              /\ computed <= 0 =>
                    env'.state = "Idle" /\ env'.level = 0 /\ env'.start_time = FALSE
              /\ computed > 0 => env'.state = "Releasing" /\ env'.level = computed
        /\ eop' = "process" /\ env.state = "Idle" =>
              env'.state = "Idle" /\ env'.level = 0 ]_vars

\* C10 witness: process has brought a released envelope back to Idle
C10_Witness ==
    eop = "process" /\ env.state = "Idle" /\ egates > 0 /\ env.start_time = FALSE

\* the coefficients and bases of e are the ones set_envelope_parameters
\* computes from the rates and the sustain level e holds
Configured(e) ==
    \E sr \in SampleRates :
        e = set_envelope_parameters(e, sr, e.params.attack_rate, e.params.decay_rate,
                                    e.params.sustain_level, e.params.release_rate)

\* C24: when set_envelope_parameters was given a rate <= 0 for a stage, the
\* stage's coefficient is 0 and one process call completes the stage whatever
\* the level is: Attacking goes to Decaying with level 1.0, Decaying goes to
\* Sustaining with the sustain level, Releasing goes to Idle with level 0.
C24_ZeroRateCompletesInOneCall ==
    [][ (eop' = "process" /\ Configured(env)) =>
          /\ env.params.attack_rate <= 0 =>
                /\ env.attack_coeff = 0
                /\ env.state = "Attacking" =>
                      env'.state = "Decaying" /\ env'.level = SCALE
          /\ env.params.decay_rate <= 0 =>
                /\ env.decay_coeff = 0
                /\ env.state = "Decaying" =>
                      env'.state = "Sustaining" /\ env'.level = env.params.sustain_level
          /\ env.params.release_rate <= 0 =>
                /\ env.release_coeff = 0
                /\ env.state = "Releasing" =>
                      env'.state = "Idle" /\ env'.level = 0 ]_vars

\* C24 witness: with attack and decay rate 0, process has left the envelope
\* Decaying, which it does only from Attacking
C24_Witness ==
    /\ eop = "process" /\ Configured(env)
    /\ env.params.attack_rate = 0 /\ env.params.decay_rate = 0
    /\ env.state = "Decaying" /\ env.level = SCALE

\* C27: the level of an envelope stays within [0, 1] under every sequence of
\* gate_on, gate_off, process and set_envelope_parameters calls with a
\* sustain level in [0, 1] and rates >= 0.
C27_LevelInUnitInterval == 0 <= env.level /\ env.level <= SCALE

\* C27 witness: process has computed an attack level of 1.0 or more and left
\* the envelope Decaying at exactly 1.0
C27_Witness ==
    /\ eop = "process" /\ env.state = "Decaying" /\ env.level = SCALE
    /\ env.params.attack_rate > 0 /\ env.params.decay_rate > 0

----------------------------------------------------------------------------
(* Release terminates: C29, checked under SpecRelease *)

\* C29: a voice that was released and is not retriggered becomes Idle after
\* finitely many rendered samples (a Releasing envelope leads to Idle or to
\* the Attacking of a new note_on), it leaves Releasing in no other way, and
\* an Idle voice stays Idle until a note_on assigns it.
C29_ReleaseReachesIdle ==
    /\ (env.state = "Releasing") ~> (env.state = "Idle" \/ eop = "note_on")
    /\ [][ (env.state = "Releasing" /\ eop' # "note_on")
              => env'.state \in {"Releasing", "Idle"} ]_vars
    /\ [][ (is_idle(env) /\ eop' # "note_on") => is_idle(env') ]_vars

\* C29 witness: rendering with a release coefficient above 0 has brought a
\* voice that was given a note back to Idle
C29_Witness ==
    /\ eop = "generate" /\ is_idle(env) /\ egates > 0
    /\ env.release_coeff > 0 /\ env.params.release_rate = MaxRate

====
